---- MODULE Spec2Model ----
(***************************************************************************)
(* State-machine model of the porto container core: TContainer and         *)
(* TContainerHolder of src/container.cpp, over an abstract kernel (cgroup  *)
(* leaf directories, freezer state, process table) and the collaborators   *)
(* whose code is not in the tree (TCgroup, TSubsystem, TTask of task.hpp,  *)
(* TContainerSpec, the reaper).                                            *)
(***************************************************************************)
EXTENDS Integers, FiniteSets, Sequences, TLC

\* ---------------------------------------------------------------- bounds
MaxPid == 2

\* ------------------------------------------------------------- constants
ROOT_CONTAINER == "ROOT"
Names == {ROOT_CONTAINER, "a"}
Subsystems == {"cpuacct", "memory", "freezer"}
FreezerSubsystem == "freezer"
Pids == 1..MaxPid
Commands == {"", "sleep"}
MemValues == {"0", "4194304"}
ExitStatuses == {0, 3}

\* the order in which PrepareCgroups walks the LeafCgroups map (a std::map
\* keyed by shared_ptr: pointer order; a failed Create drops every handle,
\* so the outcome is the same in every order)
SubsystemOrder == <<"cpuacct", "memory", "freezer">>

VARIABLES
    Containers,       \* TContainerHolder::Containers: name -> "absent" | "null" | "live"
    State,            \* TContainer::State
    MaybeReturnedOk,  \* TContainer::MaybeReturnedOk
    LeafCgroups,      \* TContainer::LeafCgroups: the subsystems that have a handle
    Task,             \* TContainer::Task
    ContainerSpec,    \* TContainer::Spec (saved to persistence on every write)
    leafDir,          \* kernel: subsystems in which the container's leaf directory exists
    cgProcs,          \* kernel: pids listed in the container's leaves
    freezerState,     \* kernel: freezer.state of the container's freezer leaf
    memKnob,          \* kernel: memory.limit_in_bytes / low_limit_in_bytes of the leaf
    proc,             \* kernel: pid -> "none" (not there) | "live" | "zombie"
    hasLowLimit,      \* kernel: memory.low_limit_in_bytes exists at the memory root
    nextPid,          \* kernel: next pid fork() hands out
    restoring,        \* daemon startup: the persisted records still to be restored
    last,             \* the call whose result is being returned to the caller
    ForkLock,         \* util/unix.cpp ForkLock: the thread that holds it, or "free"
    Tasks,            \* util/unix.cpp Tasks: pid -> the registered TTask, or "none"
    Pid,              \* TTask::Pid of each task object
    Status,           \* TTask::Status of each task object
    thr,              \* each thread's position in the TTask call it is making, and its locals
    exitStatus,       \* kernel: the wait status each child exited with
    sent              \* kernel: the kill() call each thread's Kill has just made, as <<target, signal>>

\* the state of util/unix.cpp's task table, which the container calls of
\* container.cpp leave alone
taskVars == <<ForkLock, Tasks, Pid, Status, thr, exitStatus, sent>>

vars == <<Containers, State, MaybeReturnedOk, LeafCgroups, Task, ContainerSpec, leafDir,
          cgProcs, freezerState, memKnob, proc, hasLowLimit, nextPid, restoring, last,
          ForkLock, Tasks, Pid, Status, thr, exitStatus, sent>>

\* the task objects; each is used by one thread, named after it, and the
\* main thread reaps children and delivers their statuses
TaskIds == {"t1", "t2"}
MainThread == "main"
Threads == TaskIds \cup {MainThread}
NoPid == 0
NotExited == -1
\* a thread between two calls: pc is its position, pid and status the locals
\* of the call, ret what the call returns once it is at its return, child
\* and registered what the thread's Fork produced
ThreadIdle == [pc |-> "idle", pid |-> NoPid, status |-> NotExited, ret |-> "none",
               child |-> NoPid, registered |-> FALSE]

InitTaskVars ==
    /\ ForkLock = "free"
    /\ Tasks = [p \in Pids |-> "none"]
    /\ Pid = [t \in TaskIds |-> NoPid]
    /\ Status = [t \in TaskIds |-> 0]
    /\ thr = [h \in Threads |-> ThreadIdle]
    /\ exitStatus = [p \in Pids |-> NotExited]
    /\ sent = [t \in TaskIds |-> <<>>]

\* ------------------------------------------------------------ world record
\* The operations are written as operators from a world (all the mutable
\* state) to a result [w |-> world, err |-> error kind], so that one
\* operation can call another (Restore calls Start, the destructor calls
\* Resume and Stop).

World ==
    [Containers |-> Containers, State |-> State, MaybeReturnedOk |-> MaybeReturnedOk,
     LeafCgroups |-> LeafCgroups, Task |-> Task, ContainerSpec |-> ContainerSpec, leafDir |-> leafDir,
     cgProcs |-> cgProcs, freezerState |-> freezerState, memKnob |-> memKnob,
     proc |-> proc, nextPid |-> nextPid]

SetWorld(w) ==
    /\ Containers' = w.Containers
    /\ State' = w.State
    /\ MaybeReturnedOk' = w.MaybeReturnedOk
    /\ LeafCgroups' = w.LeafCgroups
    /\ Task' = w.Task
    /\ ContainerSpec' = w.ContainerSpec
    /\ leafDir' = w.leafDir
    /\ cgProcs' = w.cgProcs
    /\ freezerState' = w.freezerState
    /\ memKnob' = w.memKnob
    /\ proc' = w.proc
    /\ nextPid' = w.nextPid
    /\ UNCHANGED hasLowLimit
    /\ UNCHANGED taskVars

Saved == {c \in Names : ContainerSpec[c].saved}

ErrorKinds ==
    {"Success", "InvalidValue", "InvalidState", "InvalidProperty", "InvalidData",
     "Unknown"}

\* a TError: its kind and (abstracted) message
Ok(w) == [w |-> w, err |-> "Success", msg |-> ""]
Fail(w, kind, msg) == [w |-> w, err |-> kind, msg |-> msg]


\* ------------------------------------------------------------------- task
NoTask == [present |-> FALSE, Pid |-> 0, started |-> FALSE, Status |-> 0, Error |-> 0]
NewTask == [present |-> TRUE, Pid |-> 0, started |-> FALSE, Status |-> 0, Error |-> 0]

\* TTask::IsRunning: the pid has not been reaped and still exists
TaskIsRunning(w, c) ==
    /\ w.Task[c].started
    /\ w.Task[c].Pid \in Pids
    /\ w.proc[w.Task[c].Pid] \in {"live", "zombie"}

\* ------------------------------------------------------------------- spec
\* a record of the key-value store: the properties, the internal root_pid
\* slot (0: not set), and whether the record exists
NewSpec ==
    [command |-> "", memory_limit |-> "0", memory_guarantee |-> "0", root_pid |-> 0,
     saved |-> TRUE]
NoSpec == [NewSpec EXCEPT !.saved = FALSE]
Properties == {"command", "memory_limit", "memory_guarantee"}
DynamicProperties == {}
IsDynamic(property) == property \in DynamicProperties

PropertyValues(property) ==
    CASE property = "command" -> Commands
      [] property = "memory_limit" -> MemValues
      [] OTHER -> {"0"}

\* ------------------------------------------------------------- container
IsRoot(c) == c = ROOT_CONTAINER

\* TContainer::CheckState: reconciles a Running container whose task is
\* missing or not running to Stopped, then compares
CheckStateWorld(w, c) ==
    IF w.State[c] = "Running" /\ (~w.Task[c].present \/ ~TaskIsRunning(w, c))
    THEN [w EXCEPT !.State[c] = "Stopped"]
    ELSE w

CheckState(w, c, expected) ==
    [w |-> CheckStateWorld(w, c), ok |-> CheckStateWorld(w, c).State[c] = expected]

\* ---------------------------------------------------------------- cgroups
NoKnobs == [limit |-> "", low |-> ""]

\* Dropping the handles of the subsystems S removes their directories;
\* rmdir of a cgroup that still lists processes fails (logged, ignored).
DropLeaves(w, c, S) ==
    IF w.cgProcs[c] # {}
    THEN w
    ELSE [w EXCEPT !.leafDir[c] = @ \ S,
                   !.freezerState[c] = IF FreezerSubsystem \in S THEN "THAWED" ELSE @,
                   !.memKnob[c] = IF "memory" \in S THEN NoKnobs ELSE @]

\* LeafCgroups.clear()
ClearLeafCgroups(w, c) ==
    [DropLeaves(w, c, w.LeafCgroups[c]) EXCEPT !.LeafCgroups[c] = {}]

\* the faults the environment can inject into one Start
StartFaults ==
    {"none", "mkdir_cpuacct", "mkdir_memory", "mkdir_freezer", "use_hierarchy",
     "memory_guarantee", "memory_limit", "prepare_task", "fork"}

FailAt(fault) ==
    CASE fault = "mkdir_cpuacct" -> "cpuacct"
      [] fault = "mkdir_memory" -> "memory"
      [] fault = "mkdir_freezer" -> "freezer"
      [] OTHER -> "none"

\* TCgroup::Create on one leaf: mkdir fails on an existing directory
\* (TFolder::Create), except in restore mode, and on an injected fault
CreateFails(dirs, s, failAt, restoreMode) ==
    \/ s = failAt
    \/ s \in dirs /\ ~restoreMode

\* the loop of PrepareCgroups over LeafCgroups, from position i of the order
RECURSIVE CreateLeaves(_, _, _, _, _)
CreateLeaves(dirs, order, i, failAt, restoreMode) ==
    IF i > 3 THEN [dirs |-> dirs, ok |-> TRUE]
    ELSE IF CreateFails(dirs, order[i], failAt, restoreMode)
         THEN [dirs |-> dirs, ok |-> FALSE]
         ELSE CreateLeaves(dirs \cup {order[i]}, order, i + 1, failAt, restoreMode)

\* PrepareCgroups that writes memory.low_limit_in_bytes without asking the
\* root cgroup for the knob
PrepareCgroups_AlwaysLowLimit(w, c, fault, restoreMode) ==
    LET w1 == [w EXCEPT !.LeafCgroups[c] = Subsystems]
        cr == CreateLeaves(w1.leafDir[c], SubsystemOrder, 1, FailAt(fault), restoreMode)
        w2 == [w1 EXCEPT !.leafDir[c] = cr.dirs]
        w3 == [w2 EXCEPT !.memKnob[c].low = w2.ContainerSpec[c].memory_guarantee]
        w4 == [w3 EXCEPT !.memKnob[c].limit = w3.ContainerSpec[c].memory_limit]
    IN  IF ~cr.ok THEN Fail(ClearLeafCgroups(w2, c), "Unknown", "mkdir")
        ELSE IF fault = "use_hierarchy" THEN Fail(w2, "Unknown", "use_hierarchy")
        ELSE IF fault = "memory_guarantee"
             THEN Fail(w2, "Unknown", "memory_guarantee")
        ELSE IF fault = "memory_limit" THEN Fail(w3, "Unknown", "memory_limit")
        ELSE Ok(w4)

\* TContainer::PrepareCgroups
PrepareCgroups(w, c, fault, restoreMode) ==
    LET w1 == [w EXCEPT !.LeafCgroups[c] = Subsystems]
        cr == CreateLeaves(w1.leafDir[c], SubsystemOrder, 1, FailAt(fault), restoreMode)
        w2 == [w1 EXCEPT !.leafDir[c] = cr.dirs]
        w3 == IF hasLowLimit
              THEN [w2 EXCEPT !.memKnob[c].low = w2.ContainerSpec[c].memory_guarantee]
              ELSE w2
        w4 == [w3 EXCEPT !.memKnob[c].limit = w3.ContainerSpec[c].memory_limit]
    IN  IF ~cr.ok THEN Fail(ClearLeafCgroups(w2, c), "Unknown", "mkdir")
        ELSE IF fault = "use_hierarchy" THEN Fail(w2, "Unknown", "use_hierarchy")
        ELSE IF hasLowLimit /\ fault = "memory_guarantee"
             THEN Fail(w2, "Unknown", "memory_guarantee")
        ELSE IF fault = "memory_limit" THEN Fail(w3, "Unknown", "memory_limit")
        ELSE Ok(w4)

\* PrepareTask that forgets to construct the TTask
PrepareTask_NoTask(w, c, fault) ==
    IF fault = "prepare_task" THEN Fail(w, "Unknown", "prepare_task")
    ELSE Ok(w)

\* TContainer::PrepareTask: taskEnv.Prepare(), then a new TTask
PrepareTask(w, c, fault) ==
    IF fault = "prepare_task" THEN Fail(w, "Unknown", "prepare_task")
    ELSE Ok([w EXCEPT !.Task[c] = NewTask])

\* TTask::Start: fork and exec; the child joins every leaf. fork fails on
\* an injected fault and when the pid space is exhausted.
TaskStart(w, c, fault) ==
    IF fault = "fork" \/ w.nextPid > MaxPid
    THEN Fail([w EXCEPT !.Task[c].Error = 1, !.Task[c].Status = -1], "Unknown", "fork")
    ELSE Ok([w EXCEPT !.Task[c].Pid = w.nextPid,
                      !.Task[c].started = TRUE,
                      !.proc[w.nextPid] = "live",
                      !.cgProcs[c] = @ \cup {w.nextPid},
                      !.nextPid = @ + 1])

\* Start that marks the container Running before it looks at the result of
\* Task->Start()
StartTask_RunningOnError(w, c, fault) ==
    LET ts == TaskStart(w, c, fault)
        w1 == [ts.w EXCEPT !.State[c] = "Running"]
    IN  IF ts.err # "Success"
        THEN Fail(ClearLeafCgroups(w1, c), ts.err, ts.msg)
        ELSE Ok([w1 EXCEPT !.ContainerSpec[c].root_pid = ts.w.Task[c].Pid])

\* Start that does not save root_pid
StartTask_NoRootPid(w, c, fault) ==
    LET ts == TaskStart(w, c, fault)
    IN  IF ts.err # "Success"
        THEN Fail(ClearLeafCgroups(ts.w, c), ts.err, ts.msg)
        ELSE Ok([ts.w EXCEPT !.State[c] = "Running"])

\* TContainer::Start, from Task->Start() on
StartTask(w, c, fault) ==
    LET ts == TaskStart(w, c, fault)
    IN  IF ts.err # "Success"
        THEN Fail(ClearLeafCgroups(ts.w, c), ts.err, ts.msg)
        ELSE Ok([ts.w EXCEPT !.ContainerSpec[c].root_pid = ts.w.Task[c].Pid,
                             !.State[c] = "Running"])

\* Start whose shortcut leaves MaybeReturnedOk set
StartIn_KeepsFlag(w, c, fault, restoreMode) ==
    IF w.State[c] \in {"Running", "Dead"} /\ w.MaybeReturnedOk[c]
    THEN Ok(w)
    ELSE
    LET w0 == [w EXCEPT !.MaybeReturnedOk[c] = FALSE]
        cs == CheckState(w0, c, "Stopped")
        pc == PrepareCgroups(cs.w, c, fault, restoreMode)
        pt == PrepareTask(pc.w, c, fault)
    IN  IF ~cs.ok THEN Fail(cs.w, "InvalidValue", "invalid container state")
        ELSE IF pc.err # "Success" THEN pc
        ELSE IF IsRoot(c) THEN Ok([pc.w EXCEPT !.State[c] = "Running"])
        ELSE IF pc.w.ContainerSpec[c].command = ""
             THEN Fail(pc.w, "InvalidValue", "container command is empty")
        ELSE IF pt.err # "Success" THEN pt
        ELSE StartTask(pt.w, c, fault)

\* TContainer::Start. restoreMode: the call is made during the restore pass
\* (by Restore), where a leaf Create may find its directory present.
StartIn(w, c, fault, restoreMode) ==
    IF w.State[c] \in {"Running", "Dead"} /\ w.MaybeReturnedOk[c]
    THEN Ok([w EXCEPT !.MaybeReturnedOk[c] = FALSE])
    ELSE
    LET w0 == [w EXCEPT !.MaybeReturnedOk[c] = FALSE]
        cs == CheckState(w0, c, "Stopped")
        pc == PrepareCgroups(cs.w, c, fault, restoreMode)
        pt == PrepareTask(pc.w, c, fault)
    IN  IF ~cs.ok THEN Fail(cs.w, "InvalidValue", "invalid container state")
        ELSE IF pc.err # "Success" THEN pc
        ELSE IF IsRoot(c) THEN Ok([pc.w EXCEPT !.State[c] = "Running"])
        ELSE IF pc.w.ContainerSpec[c].command = ""
             THEN Fail(pc.w, "InvalidValue", "container command is empty")
        ELSE IF pt.err # "Success" THEN pt
        ELSE StartTask(pt.w, c, fault)

\* TContainer::Start as a client calls it
Start(w, c, fault) == StartIn(w, c, fault, FALSE)

\* ------------------------------------------------------- freezer and kill
\* the processes P of c's leaf exit by themselves: they leave the leaf and
\* wait to be reaped
ExitProcs(w, c, P) ==
    [w EXCEPT !.proc = [p \in Pids |-> IF p \in P THEN "zombie" ELSE @[p]],
              !.cgProcs[c] = @ \ P]

\* a signal kills the processes P of c's leaf
KillProcs(w, c, P) == ExitProcs(w, c, P)

\* TFreezerSubsystem::Freeze / Unfreeze: write freezer.state and wait
\* (bounded) until it reads back; fails when the leaf is missing or the
\* wait times out
Freeze(w, c, fails) ==
    IF fails \/ FreezerSubsystem \notin w.leafDir[c]
    THEN Fail(w, "Unknown", "freeze")
    ELSE Ok([w EXCEPT !.freezerState[c] = "FROZEN"])

Unfreeze(w, c, fails) ==
    IF fails \/ FreezerSubsystem \notin w.leafDir[c]
    THEN Fail(w, "Unknown", "unfreeze")
    ELSE Ok([w EXCEPT !.freezerState[c] = "THAWED"])

KillFaults == {"none", "gettasks1", "freeze", "gettasks2", "unfreeze"}

\* KillAll that sends SIGKILL after it has thawed the leaf
KillSteps_KillAfterUnfreeze(w, c, kf) ==
    IF kf = "gettasks1" \/ FreezerSubsystem \notin w.leafDir[c]
    THEN <<"GetTasks">>
    ELSE IF kf = "gettasks2"
         THEN <<"GetTasks", "SIGTERM", "SleepWhile", "Freeze", "GetTasks">>
    ELSE <<"GetTasks", "SIGTERM", "SleepWhile", "Freeze", "GetTasks", "Unfreeze", "SIGKILL">>

\* TContainer::KillAll: the calls it makes on the freezer leaf, in order,
\* up to the return it takes
KillSteps(w, c, kf) ==
    IF kf = "gettasks1" \/ FreezerSubsystem \notin w.leafDir[c]
    THEN <<"GetTasks">>
    ELSE IF kf = "gettasks2"
         THEN <<"GetTasks", "SIGTERM", "SleepWhile", "Freeze", "GetTasks">>
    ELSE <<"GetTasks", "SIGTERM", "SleepWhile", "Freeze", "GetTasks", "SIGKILL", "Unfreeze">>

\* TContainer::KillAll. termWorks: the processes die of SIGTERM within the
\* wait. A frozen process takes no signal until it is thawed.
KillAll(w, c, kf, termWorks) ==
    LET frozen0 == w.freezerState[c] = "FROZEN"
        w1 == IF termWorks /\ ~frozen0 THEN KillProcs(w, c, w.cgProcs[c]) ELSE w
        fr == Freeze(w1, c, kf = "freeze")
        w2 == fr.w
        un == Unfreeze(w2, c, kf = "unfreeze")
        w3 == un.w
        w4 == IF w3.freezerState[c] = "FROZEN" THEN w3
              ELSE KillProcs(w3, c, w3.cgProcs[c])
    IN  IF kf = "gettasks1" \/ FreezerSubsystem \notin w.leafDir[c]
        THEN Fail(w, "Unknown", "gettasks")
        ELSE IF kf = "gettasks2" THEN Fail(w2, "Unknown", "gettasks")
        ELSE Ok(w4)

\* Stop that kills the processes but keeps the leaves
Stop_KeepsLeaves(w, c, kf, termWorks) ==
    LET cs1 == CheckState(w, c, "Running")
        cs2 == IF cs1.ok THEN cs1 ELSE CheckState(cs1.w, c, "Dead")
        ka == KillAll(cs2.w, c, kf, termWorks)
    IN  IF IsRoot(c) THEN Fail(w, "InvalidValue", "invalid container state")
        ELSE IF ~cs2.ok THEN Fail(cs2.w, "InvalidValue", "invalid container state")
        ELSE Ok([ka.w EXCEPT !.State[c] = "Stopped"])

\* Stop that drops the leaves but forgets State = Stopped
Stop_KeepsState(w, c, kf, termWorks) ==
    LET cs1 == CheckState(w, c, "Running")
        cs2 == IF cs1.ok THEN cs1 ELSE CheckState(cs1.w, c, "Dead")
        ka == KillAll(cs2.w, c, kf, termWorks)
        w1 == ClearLeafCgroups(ka.w, c)
    IN  IF IsRoot(c) THEN Fail(w, "InvalidValue", "invalid container state")
        ELSE IF ~cs2.ok THEN Fail(cs2.w, "InvalidValue", "invalid container state")
        ELSE Ok(w1)

\* TContainer::Stop (AckExitStatus(pid) touches only the reaper's list of
\* unclaimed statuses, which is not part of this state)
Stop(w, c, kf, termWorks) ==
    LET cs1 == CheckState(w, c, "Running")
        cs2 == IF cs1.ok THEN cs1 ELSE CheckState(cs1.w, c, "Dead")
        ka == KillAll(cs2.w, c, kf, termWorks)
        w1 == ClearLeafCgroups(ka.w, c)
    IN  IF IsRoot(c) THEN Fail(w, "InvalidValue", "invalid container state")
        ELSE IF ~cs2.ok THEN Fail(cs2.w, "InvalidValue", "invalid container state")
        ELSE Ok([w1 EXCEPT !.State[c] = "Stopped"])

\* Pause that does not look at the result of Freeze
Pause_IgnoresFreezeError(w, c, freezeFails) ==
    LET cs == CheckState(w, c, "Running")
        fr == Freeze(cs.w, c, freezeFails)
    IN  IF IsRoot(c) THEN Fail(w, "InvalidValue", "invalid container state")
        ELSE IF ~cs.ok THEN Fail(cs.w, "InvalidValue", "invalid container state")
        ELSE Ok([fr.w EXCEPT !.State[c] = "Paused"])

\* TContainer::Pause
Pause(w, c, freezeFails) ==
    LET cs == CheckState(w, c, "Running")
        fr == Freeze(cs.w, c, freezeFails)
    IN  IF IsRoot(c) THEN Fail(w, "InvalidValue", "invalid container state")
        ELSE IF ~cs.ok THEN Fail(cs.w, "InvalidValue", "invalid container state")
        ELSE IF fr.err # "Success" THEN fr
        ELSE Ok([fr.w EXCEPT !.State[c] = "Paused"])

\* Resume that sets the state without thawing the leaf
Resume_NoUnfreeze(w, c, unfreezeFails) ==
    LET cs == CheckState(w, c, "Paused")
    IN  IF ~cs.ok THEN Fail(cs.w, "InvalidValue", "invalid container state")
        ELSE Ok([cs.w EXCEPT !.State[c] = "Running"])

\* Resume that does not look at the result of Unfreeze
Resume_IgnoresUnfreezeError(w, c, unfreezeFails) ==
    LET cs == CheckState(w, c, "Paused")
        un == Unfreeze(cs.w, c, unfreezeFails)
    IN  IF ~cs.ok THEN Fail(cs.w, "InvalidValue", "invalid container state")
        ELSE Ok([un.w EXCEPT !.State[c] = "Running"])

\* TContainer::Resume
Resume(w, c, unfreezeFails) ==
    LET cs == CheckState(w, c, "Paused")
        un == Unfreeze(cs.w, c, unfreezeFails)
    IN  IF ~cs.ok THEN Fail(cs.w, "InvalidValue", "invalid container state")
        ELSE IF un.err # "Success" THEN un
        ELSE Ok([un.w EXCEPT !.State[c] = "Running"])

\* ------------------------------------------------------------------- data
IntToString(n) ==
    CASE n = -1 -> "-1" [] n = 0 -> "0" [] n = 1 -> "1" [] n = 2 -> "2"
      [] n = 3 -> "3" [] n = 4 -> "4" [] n = 5 -> "5" [] OTHER -> "many"

StateName(state) ==
    CASE state = "Stopped" -> "stopped"
      [] state = "Dead" -> "dead"
      [] state = "Running" -> "running"
      [] state = "Paused" -> "paused"
      [] OTHER -> "unknown"

DataKeys ==
    {"state", "exit_status", "start_errno", "root_pid", "stdout", "stderr",
     "cpu_usage", "memory_usage"}

DataRootValid(key) == key \in {"state", "cpu_usage", "memory_usage"}

\* the Valid sets with Stopped missing from the set of "state"
DataValid_StateNotWhenStopped(key) ==
    CASE key = "state" -> {"Dead", "Running", "Paused"}
      [] key = "exit_status" -> {"Dead"}
      [] key = "start_errno" -> {"Stopped"}
      [] key = "root_pid" -> {"Running", "Paused"}
      [] OTHER -> {"Running", "Paused", "Dead"}

DataValid(key) ==
    CASE key = "state" -> {"Stopped", "Dead", "Running", "Paused"}
      [] key = "exit_status" -> {"Dead"}
      [] key = "start_errno" -> {"Stopped"}
      [] key = "root_pid" -> {"Running", "Paused"}
      [] OTHER -> {"Running", "Paused", "Dead"}

\* the handlers of TData
DataHandler(w, c, key) ==
    CASE key = "state" -> StateName(w.State[c])
      [] key = "root_pid" ->
            IF w.Task[c].present THEN IntToString(w.Task[c].Pid) ELSE "-1"
      [] key = "exit_status" ->
            IF w.Task[c].present /\ ~TaskIsRunning(w, c)
            THEN IntToString(w.Task[c].Status) ELSE "-1"
      [] key = "start_errno" ->
            IF w.Task[c].present /\ ~TaskIsRunning(w, c)
            THEN IntToString(w.Task[c].Error) ELSE "-1"
      [] key \in {"cpu_usage", "memory_usage"} ->
            IF (IF key = "cpu_usage" THEN "cpuacct" ELSE "memory") \in w.leafDir[c]
            THEN "0" ELSE "-1"
      [] OTHER -> ""

\* GetData that tests the state before it tests the root container
GetData_StateGateFirst(w, c, key) ==
    IF key \notin DataKeys THEN [err |-> "InvalidValue", value |-> ""]
    ELSE IF w.State[c] \notin DataValid(key) THEN [err |-> "InvalidState", value |-> ""]
    ELSE IF IsRoot(c) /\ ~DataRootValid(key) THEN [err |-> "InvalidData", value |-> ""]
    ELSE [err |-> "Success", value |-> DataHandler(w, c, key)]

\* TContainer::GetData
GetData(w, c, key) ==
    IF key \notin DataKeys THEN [err |-> "InvalidValue", value |-> ""]
    ELSE IF IsRoot(c) /\ ~DataRootValid(key) THEN [err |-> "InvalidData", value |-> ""]
    ELSE IF w.State[c] \notin DataValid(key) THEN [err |-> "InvalidState", value |-> ""]
    ELSE [err |-> "Success", value |-> DataHandler(w, c, key)]

\* TContainer::GetProperty
GetProperty(w, c, property) ==
    IF IsRoot(c) THEN [err |-> "InvalidProperty", value |-> ""]
    ELSE [err |-> "Success", value |-> w.ContainerSpec[c][property]]

\* SetProperty that does not look at the state
SetPropertyAs_AnyState(w, c, property, value, dynamic) ==
    IF IsRoot(c) THEN Fail(w, "InvalidValue", "Can't set property for root")
    ELSE Ok([w EXCEPT !.ContainerSpec[c][property] = value])

\* TContainer::SetProperty; dynamic: what Spec.IsDynamic(property) answers
SetPropertyAs(w, c, property, value, dynamic) ==
    IF IsRoot(c) THEN Fail(w, "InvalidValue", "Can't set property for root")
    ELSE IF w.State[c] # "Stopped" /\ ~dynamic
         THEN Fail(w, "InvalidValue", "Can't set dynamic property")
    ELSE Ok([w EXCEPT !.ContainerSpec[c][property] = value])

\* TContainer::SetProperty with the flags of the model's properties
SetProperty(w, c, property, value) ==
    SetPropertyAs(w, c, property, value, IsDynamic(property))

\* DeliverExitStatus that does not look at State
DeliverExitStatus_AnyState(w, c, pid, status) ==
    IF ~w.Task[c].present THEN [w |-> w, claimed |-> FALSE]
    ELSE IF w.Task[c].Pid # pid THEN [w |-> w, claimed |-> FALSE]
    ELSE [w |-> [w EXCEPT !.Task[c].started = FALSE,
                          !.Task[c].Status = status,
                          !.State[c] = "Dead"],
          claimed |-> TRUE]

\* TContainer::DeliverExitStatus
DeliverExitStatus(w, c, pid, status) ==
    IF w.State[c] # "Running" \/ ~w.Task[c].present THEN [w |-> w, claimed |-> FALSE]
    ELSE IF w.Task[c].Pid # pid THEN [w |-> w, claimed |-> FALSE]
    ELSE [w |-> [w EXCEPT !.Task[c].started = FALSE,
                          !.Task[c].Status = status,
                          !.State[c] = "Dead"],
          claimed |-> TRUE]

\* ----------------------------------------------------------------- holder
MalformedNames == {"", "x-y"}

\* a name as ValidName reads it: its characters, one by one ("hi" stands for
\* a byte above 0x7f)
NameChars(name) ==
    CASE name = "ROOT" -> <<"R", "O", "O", "T">>
      [] name = "a" -> <<"a">>
      [] name = "" -> <<>>
      [] name = "x-y" -> <<"x", "-", "y">>

\* isalnum() in the "C" locale (the daemon sets no locale): the letters and
\* digits of ASCII; the C libraries of Linux answer 0 for a byte above 0x7f
Letters == {"a", "x", "y", "Z", "R", "O", "T"}
Digits == {"7"}
isalnum(ch) == ch \in Letters \cup Digits

MaxNameLen == 128

\* ValidName that also refuses a name of exactly MaxNameLen characters
ValidNameOf_OffByOne(s) ==
    IF s = NameChars(ROOT_CONTAINER) THEN TRUE
    ELSE IF Len(s) = 0 \/ Len(s) >= MaxNameLen THEN FALSE
    ELSE {i \in 1..Len(s) : ~(isalnum(s[i]) \/ s[i] = "_")} = {}

\* TContainerHolder::ValidName on the characters of a name
ValidNameOf(s) ==
    IF s = NameChars(ROOT_CONTAINER) THEN TRUE
    ELSE IF Len(s) = 0 \/ Len(s) > MaxNameLen THEN FALSE
    ELSE {i \in 1..Len(s) : ~(isalnum(s[i]) \/ s[i] = "_")} = {}

\* TContainerHolder::ValidName, on the names of the model
ValidName(name) == ValidNameOf(NameChars(name))

\* a container object that does not exist (any more)
ResetContainer(w, c) ==
    [w EXCEPT !.State[c] = "Stopped", !.MaybeReturnedOk[c] = FALSE,
              !.LeafCgroups[c] = {}, !.Task[c] = NoTask]

\* Create without the test for an existing container: the entry is replaced
HolderCreate_Overwrites(w, name, persistFails) ==
    IF ~ValidName(name) THEN Fail(w, "InvalidValue", "invalid container name")
    ELSE IF persistFails
         THEN Fail([w EXCEPT !.Containers[name] = "null"], "Unknown", "spec create")
    ELSE Ok([ResetContainer(w, name) EXCEPT !.Containers[name] = "live",
                                            !.ContainerSpec[name] = NewSpec])

\* TContainerHolder::Create; persistFails: TContainerSpec::Create fails.
\* Containers[name] == nullptr inserts an empty entry for an unknown name.
HolderCreate(w, name, persistFails) ==
    IF ~ValidName(name) THEN Fail(w, "InvalidValue", "invalid container name")
    ELSE IF w.Containers[name] = "live"
         THEN Fail(w, "InvalidValue", "already exists")
    ELSE IF persistFails
         THEN Fail([w EXCEPT !.Containers[name] = "null"], "Unknown", "spec create")
    ELSE Ok([ResetContainer(w, name) EXCEPT !.Containers[name] = "live",
                                            !.ContainerSpec[name] = NewSpec])

\* TContainer::~TContainer, then the members' destructors
Destructor(w, c, unfreezeFails, kf, termWorks) ==
    LET w1 == IF w.State[c] = "Paused" THEN Resume(w, c, unfreezeFails).w ELSE w
        w2 == Stop(w1, c, kf, termWorks).w
    IN  ResetContainer(ClearLeafCgroups(w2, c), c)

\* Destroy that erases only entries that hold a container
HolderDestroy_LeavesEmptyEntry(w, name, unfreezeFails, kf, termWorks) ==
    IF name = ROOT_CONTAINER \/ name \notin Names THEN w
    ELSE IF w.Containers[name] # "live" THEN w
    ELSE [Destructor(w, name, unfreezeFails, kf, termWorks)
            EXCEPT !.Containers[name] = "absent", !.ContainerSpec[name] = NoSpec]

\* TContainerHolder::Destroy (erase of a name that is not a key does nothing)
HolderDestroy(w, name, unfreezeFails, kf, termWorks) ==
    IF name = ROOT_CONTAINER \/ name \notin Names THEN w
    ELSE IF w.Containers[name] = "absent" THEN w
    ELSE IF w.Containers[name] = "null" THEN [w EXCEPT !.Containers[name] = "absent"]
    ELSE [Destructor(w, name, unfreezeFails, kf, termWorks)
            EXCEPT !.Containers[name] = "absent", !.ContainerSpec[name] = NoSpec]

\* TContainerHolder::List: the possible results. The loop dereferences every
\* entry; on an empty entry the behaviour is undefined: the daemon dies on
\* the null pointer (no result), or the read yields some garbage string.
HolderList(w) ==
    LET names == {n \in Names : w.Containers[n] = "live"}
    IN  IF \E n \in Names : w.Containers[n] = "null"
        THEN {[ok |-> FALSE, names |-> {}], [ok |-> TRUE, names |-> names \cup {"?"}]}
        ELSE {[ok |-> TRUE, names |-> names]}

\* the iteration order of the Containers map (std::map: by name)
NameOrder == <<"ROOT", "a">>

\* what dereferencing an empty entry of the map can do (undefined
\* behaviour): the read through the null pointer kills the daemon, or it
\* yields garbage and the call on the entry answers false
NullDeref == {"crash", "garbage"}

\* TContainerHolder::DeliverExitStatus, from position i of the map; ub: what
\* the call on an empty entry does
RECURSIVE HolderDeliverExitStatus(_, _, _, _, _)
HolderDeliverExitStatus(w, i, pid, status, ub) ==
    IF i > Len(NameOrder) THEN [w |-> w, claimed |-> FALSE, crashed |-> FALSE]
    ELSE IF w.Containers[NameOrder[i]] = "absent"
         THEN HolderDeliverExitStatus(w, i + 1, pid, status, ub)
    ELSE IF w.Containers[NameOrder[i]] = "null"
         THEN IF ub = "crash" THEN [w |-> w, claimed |-> FALSE, crashed |-> TRUE]
              ELSE HolderDeliverExitStatus(w, i + 1, pid, status, ub)
    ELSE IF DeliverExitStatus(w, NameOrder[i], pid, status).claimed
         THEN [w |-> DeliverExitStatus(w, NameOrder[i], pid, status).w,
               claimed |-> TRUE, crashed |-> FALSE]
    ELSE HolderDeliverExitStatus(w, i + 1, pid, status, ub)

\* TContainerHolder::CreateRoot: the result of Start is dropped
HolderCreateRoot(w, persistFails, fault) ==
    LET cr == HolderCreate(w, ROOT_CONTAINER, persistFails)
    IN  IF cr.err # "Success" THEN cr
        ELSE Ok(Start(cr.w, ROOT_CONTAINER, fault).w)

\* ---------------------------------------------------------------- restore
\* TTask::Restore(pid): binds the task to the pid if the process is there
TaskRestore(w, c, pid, fails) ==
    IF fails \/ pid \notin Pids \/ w.proc[pid] = "none"
    THEN Fail(w, "Unknown", "task restore")
    ELSE Ok([w EXCEPT !.Task[c].Pid = pid, !.Task[c].started = TRUE])

\* TContainer::IsAlive
IsAlive(w, c) == IsRoot(c) \/ w.cgProcs[c] # {}

RestoreFaults == StartFaults \cup {"spec_restore", "task_restore"}

\* Restore that goes on to Running when Task->Restore fails
Restore_IgnoresTaskRestore(w, c, fault, kf, termWorks) ==
    LET pid == w.ContainerSpec[c].root_pid
        started == pid # 0
        w0 == [w EXCEPT !.State[c] = "Stopped"]
        pc == PrepareCgroups(w0, c, fault, TRUE)
        pt == PrepareTask(pc.w, c, fault)
        tr == TaskRestore(pt.w, c, pid, fault = "task_restore")
        w2 == [tr.w EXCEPT !.State[c] = "Running", !.MaybeReturnedOk[c] = TRUE]
    IN  IF fault = "spec_restore" THEN Fail(w, "Unknown", "spec restore")
        ELSE IF started
        THEN IF pc.err # "Success" THEN pc
             ELSE IF pt.err # "Success" THEN pt
             ELSE Ok(w2)
        ELSE IF IsAlive(w0, c)
             THEN StartIn(KillAll(w0, c, kf, termWorks).w, c, fault, TRUE)
             ELSE Ok(KillAll(w0, c, kf, termWorks).w)

\* Restore that re-issues Start without killing what is in the leaf
Restore_NoKillAll(w, c, fault, kf, termWorks) ==
    LET pid == w.ContainerSpec[c].root_pid
        started == pid # 0
        w0 == [w EXCEPT !.State[c] = "Stopped"]
        pc == PrepareCgroups(w0, c, fault, TRUE)
        pt == PrepareTask(pc.w, c, fault)
        tr == TaskRestore(pt.w, c, pid, fault = "task_restore")
        w1 == [tr.w EXCEPT !.State[c] =
                   IF TaskIsRunning(tr.w, c) THEN "Running" ELSE "Stopped"]
        w2 == IF w1.State[c] = "Running"
              THEN [w1 EXCEPT !.MaybeReturnedOk[c] = TRUE] ELSE w1
    IN  IF fault = "spec_restore" THEN Fail(w, "Unknown", "spec restore")
        ELSE IF started
        THEN IF pc.err # "Success" THEN pc
             ELSE IF pt.err # "Success" THEN pt
             ELSE IF tr.err # "Success"
                  THEN Fail(KillAll([tr.w EXCEPT !.Task[c] = NoTask], c, kf, termWorks).w,
                            tr.err, tr.msg)
             ELSE Ok(w2)
        ELSE IF IsAlive(w0, c)
             THEN StartIn(w0, c, fault, TRUE)
             ELSE Ok(w0)

\* TContainer::Restore on a freshly made container; the record is in
\* ContainerSpec[c]. The leaves are created in restore mode.
Restore(w, c, fault, kf, termWorks) ==
    LET pid == w.ContainerSpec[c].root_pid
        started == pid # 0
        w0 == [w EXCEPT !.State[c] = "Stopped"]
        pc == PrepareCgroups(w0, c, fault, TRUE)
        pt == PrepareTask(pc.w, c, fault)
        tr == TaskRestore(pt.w, c, pid, fault = "task_restore")
        w1 == [tr.w EXCEPT !.State[c] =
                   IF TaskIsRunning(tr.w, c) THEN "Running" ELSE "Stopped"]
        w2 == IF w1.State[c] = "Running"
              THEN [w1 EXCEPT !.MaybeReturnedOk[c] = TRUE] ELSE w1
    IN  IF fault = "spec_restore" THEN Fail(w, "Unknown", "spec restore")
        ELSE IF started
        THEN IF pc.err # "Success" THEN pc
             ELSE IF pt.err # "Success" THEN pt
             ELSE IF tr.err # "Success"
                  THEN Fail(KillAll([tr.w EXCEPT !.Task[c] = NoTask], c, kf, termWorks).w,
                            tr.err, tr.msg)
             ELSE Ok(w2)
        ELSE IF IsAlive(w0, c)
             THEN StartIn(KillAll(w0, c, kf, termWorks).w, c, fault, TRUE)
             ELSE Ok(KillAll(w0, c, kf, termWorks).w)

\* TContainerHolder::Restore: a container that fails to restore is
\* destroyed again and not registered
HolderRestore(w, name, fault, kf, termWorks) ==
    LET r == Restore(ResetContainer(w, name), name, fault, kf, termWorks)
    IN  IF r.err # "Success"
        THEN Fail(Destructor(r.w, name, FALSE, "none", FALSE), r.err, r.msg)
        ELSE Ok([r.w EXCEPT !.Containers[name] = "live"])

\* the daemon dies and comes up again: the objects are gone (no destructor
\* runs), the kernel state and the persisted records remain
Crashed(w) ==
    [w EXCEPT !.Containers = [c \in Names |-> "absent"],
              !.State = [c \in Names |-> "Stopped"],
              !.MaybeReturnedOk = [c \in Names |-> FALSE],
              !.LeafCgroups = [c \in Names |-> {}],
              !.Task = [c \in Names |-> NoTask]]

\* ---------------------------------------------------------------- actions
NoCall == [op |-> "none", name |-> "", err |-> "Success", msg |-> ""]

Call(op, name, r) == [op |-> op, name |-> name, err |-> r.err, msg |-> r.msg]

Live(c) == Containers[c] = "live"

\* the dispatcher is single-threaded: it takes the next request or event
\* only after the result of the previous call went back to its caller
Idle == last = NoCall /\ restoring = {}

\* the inputs that can make a difference to a call in the current state
\* (a fault is injected only into a step the call reaches)
StartFaultsOf(c) ==
    IF State[c] \in {"Paused", "Dead"} \/ (State[c] = "Running" /\ MaybeReturnedOk[c])
    THEN {"none"} ELSE StartFaults
KillFaultsOf(c) ==
    IF Live(c) /\ ~IsRoot(c) /\ State[c] # "Stopped" THEN KillFaults ELSE {"none"}
TermOutcomesOf(c) == IF cgProcs[c] # {} THEN BOOLEAN ELSE {FALSE}
FreezeOutcomesOf(c, state) ==
    IF Live(c) /\ ~IsRoot(c) /\ State[c] = state THEN BOOLEAN ELSE {FALSE}

Init ==
    /\ InitTaskVars
    /\ Containers = [c \in Names |-> "absent"]
    /\ State = [c \in Names |-> "Stopped"]
    /\ MaybeReturnedOk = [c \in Names |-> FALSE]
    /\ LeafCgroups = [c \in Names |-> {}]
    /\ Task = [c \in Names |-> NoTask]
    /\ ContainerSpec = [c \in Names |-> NoSpec]
    /\ leafDir = [c \in Names |-> {}]
    /\ cgProcs = [c \in Names |-> {}]
    /\ freezerState = [c \in Names |-> "THAWED"]
    /\ memKnob = [c \in Names |-> NoKnobs]
    /\ proc = [p \in Pids |-> "none"]
    /\ hasLowLimit = TRUE
    /\ nextPid = 1
    /\ restoring = {}
    /\ last = NoCall

CreateRootAct ==
    /\ Idle
    /\ Containers[ROOT_CONTAINER] # "live"
    /\ \E persistFails \in BOOLEAN, fault \in StartFaults :
          LET r == HolderCreateRoot(World, persistFails, fault)
          IN  SetWorld(r.w) /\ UNCHANGED restoring /\ last' = Call("CreateRoot", ROOT_CONTAINER, r)

CreateAct ==
    Idle /\ \E name \in Names \cup MalformedNames :
      \E persistFails \in (IF ValidName(name) /\ ~Live(name) THEN BOOLEAN ELSE {FALSE}) :
        LET r == HolderCreate(World, name, persistFails)
        IN  SetWorld(r.w) /\ UNCHANGED restoring /\ last' = Call("Create", name, r)

DestroyAct ==
    Idle /\ \E c \in Names :
      \E unfreezeFails \in FreezeOutcomesOf(c, "Paused"), kf \in KillFaultsOf(c),
         termWorks \in TermOutcomesOf(c) :
        /\ Containers[c] # "absent"
        /\ SetWorld(HolderDestroy(World, c, unfreezeFails, kf, termWorks))
        /\ UNCHANGED restoring /\ last' = Call("Destroy", c, Ok(World))

StartAct ==
    Idle /\ \E c \in Names :
      \E fault \in StartFaultsOf(c) :
        /\ Live(c)
        /\ LET r == Start(World, c, fault)
           IN  SetWorld(r.w) /\ UNCHANGED restoring /\ last' = Call("Start", c, r)

StopAct ==
    Idle /\ \E c \in Names :
      \E kf \in KillFaultsOf(c), termWorks \in TermOutcomesOf(c) :
        /\ Live(c)
        /\ LET r == Stop(World, c, kf, termWorks)
           IN  SetWorld(r.w) /\ UNCHANGED restoring /\ last' = Call("Stop", c, r)

PauseAct ==
    Idle /\ \E c \in Names :
      \E freezeFails \in FreezeOutcomesOf(c, "Running") :
        /\ Live(c)
        /\ LET r == Pause(World, c, freezeFails)
           IN  SetWorld(r.w) /\ UNCHANGED restoring /\ last' = Call("Pause", c, r)

ResumeAct ==
    Idle /\ \E c \in Names :
      \E unfreezeFails \in FreezeOutcomesOf(c, "Paused") :
        /\ Live(c)
        /\ LET r == Resume(World, c, unfreezeFails)
           IN  SetWorld(r.w) /\ UNCHANGED restoring /\ last' = Call("Resume", c, r)

\* the read-only calls: nothing changes, the value goes back at once
GetDataAct ==
    Idle /\ \E c \in Names, key \in DataKeys \cup {"bogus"} :
        /\ Live(c)
        /\ GetData(World, c, key).err \in ErrorKinds
        /\ UNCHANGED vars

GetPropertyAct ==
    Idle /\ \E c \in Names, property \in Properties :
        /\ Live(c)
        /\ GetProperty(World, c, property).err \in ErrorKinds
        /\ UNCHANGED vars

SetPropertyAct ==
    Idle /\ \E c \in Names, property \in {"command"} :
        \E value \in PropertyValues(property) :
            /\ Live(c)
            /\ LET r == SetProperty(World, c, property, value)
               IN  SetWorld(r.w) /\ UNCHANGED restoring /\ last' = Call("SetProperty", c, r)

\* TContainerHolder::Heartbeat: TTask::Rotate touches only the log files
HeartbeatAct ==
    /\ Idle
    /\ UNCHANGED vars

\* TContainerHolder::List: read-only (a result that kills the daemon is
\* the step Crash)
ListAct ==
    /\ Idle
    /\ HolderList(World) # {}
    /\ UNCHANGED vars

\* a live, unfrozen process of a container exits by itself
ProcessExit ==
    last = NoCall /\ \E c \in Names, p \in Pids :
        /\ p \in cgProcs[c]
        /\ freezerState[c] = "THAWED"
        /\ SetWorld(ExitProcs(World, c, {p}))
        /\ UNCHANGED <<restoring, last>>

\* the reaper collects an exited child and offers it to the holder; a
\* holder that dies on an empty entry takes the daemon with it, which is
\* then restarted
Reap ==
    Idle /\ \E p \in Pids, status \in ExitStatuses :
      \E ub \in (IF \E n \in Names : Containers[n] = "null" THEN NullDeref ELSE {"garbage"}) :
        /\ proc[p] = "zombie"
        /\ LET d == HolderDeliverExitStatus([World EXCEPT !.proc[p] = "none"],
                                            1, p, status, ub)
           IN  IF d.crashed
               THEN /\ SetWorld(Crashed(d.w))
                    /\ restoring' = Saved
                    /\ last' = NoCall
               ELSE /\ SetWorld(d.w)
                    /\ UNCHANGED restoring
                    /\ last' = [NoCall EXCEPT !.op = "DeliverExitStatus",
                                              !.err = IF d.claimed THEN "Success"
                                                      ELSE "Unclaimed"]

\* the result goes back to the caller
Return ==
    /\ last # NoCall
    /\ last' = NoCall
    /\ UNCHANGED <<Containers, State, MaybeReturnedOk, LeafCgroups, Task, ContainerSpec,
                   leafDir, cgProcs, freezerState, memKnob, proc, hasLowLimit, nextPid,
                   restoring>>
    /\ UNCHANGED taskVars

\* the daemon is killed between two calls and restarted
Crash ==
    /\ Idle
    /\ SetWorld(Crashed(World))
    /\ restoring' = Saved
    /\ last' = NoCall

\* the daemon is killed inside Start, after the fork and before root_pid
\* is saved, and restarted
CrashInStart ==
    Idle /\ \E c \in Names :
        /\ Live(c) /\ ~IsRoot(c)
        /\ Start(World, c, "none").err = "Success"
        /\ Start(World, c, "none").w.State[c] # State[c]
        /\ SetWorld(Crashed([Start(World, c, "none").w
                                EXCEPT !.ContainerSpec[c].root_pid =
                                            ContainerSpec[c].root_pid]))
        /\ restoring' = Saved
        /\ last' = NoCall

\* startup: one persisted record is restored
RestoreAct ==
    last = NoCall /\ \E c \in restoring :
      \E fault \in RestoreFaults, kf \in KillFaults, termWorks \in TermOutcomesOf(c) :
        LET r == HolderRestore(World, c, fault, kf, termWorks)
        IN  /\ SetWorld(r.w)
            /\ restoring' = restoring \ {c}
            /\ last' = Call("Restore", c, r)

Next ==
    \/ CreateRootAct
    \/ CreateAct
    \/ DestroyAct
    \/ StartAct
    \/ StopAct
    \/ PauseAct
    \/ ResumeAct
    \/ GetDataAct
    \/ GetPropertyAct
    \/ SetPropertyAct
    \/ HeartbeatAct
    \/ ListAct
    \/ ProcessExit
    \/ Reap
    \/ Return
    \/ Crash
    \/ CrashInStart
    \/ RestoreAct

Spec == Init /\ [][Next]_vars

\* ----------------------------------------------------------------- claims
\* C1: on a non-ROOT container, every lifecycle call made in a state that
\* is outside the transition table returns an error of kind InvalidState.
\* The code returns InvalidValue.
C1_OutsideTableIsInvalidState ==
    [][LET op == last'.op
           state == State[last'.name]
           flag == MaybeReturnedOk[last'.name]
       IN  (/\ last'.name \in Names \ {ROOT_CONTAINER}
            /\ \/ op = "Start" /\ \/ state = "Paused"
                                  \/ state \in {"Running", "Dead"} /\ ~flag
               \/ op = "Stop" /\ state \in {"Stopped", "Paused"}
               \/ op = "Pause" /\ state \in {"Stopped", "Paused", "Dead"}
               \/ op = "Resume" /\ state \in {"Stopped", "Running", "Dead"})
           => last'.err = "InvalidState"]_vars

\* C2: a lifecycle call rejected by the state check leaves the container's
\* State, LeafCgroups, Task and Spec as they were before the call.
\* CheckState rewrites a Running container without a running task to Stopped
\* before it compares.
C2_RejectedLeavesUnchanged ==
    [][(/\ last'.op \in {"Start", "Stop", "Pause", "Resume"}
        /\ last'.msg = "invalid container state")
       => /\ State'[last'.name] = State[last'.name]
          /\ LeafCgroups'[last'.name] = LeafCgroups[last'.name]
          /\ Task'[last'.name] = Task[last'.name]
          /\ ContainerSpec'[last'.name] = ContainerSpec[last'.name]]_vars

\* C3 as stated: whenever Start returns an error, the container's State is
\* Stopped on return.
C3_FailedStartIsStopped ==
    (last.op = "Start" /\ last.err # "Success") => State[last.name] = "Stopped"

\* C3: whenever Start returns an error other than the wrong-state
\* rejection, State is Stopped on return; a wrong-state rejection happens
\* only in Running, Paused or Dead and leaves State as it was.
C3_FailedStartStoppedUnlessRejected ==
    [][(last'.op = "Start" /\ last'.err # "Success")
       => IF last'.msg = "invalid container state"
          THEN /\ State'[last'.name] = State[last'.name]
               /\ State[last'.name] \in {"Running", "Paused", "Dead"}
          ELSE State'[last'.name] = "Stopped"]_vars

\* fork failed in a Start of a Stopped container: the call returned the
\* error and the container is Stopped
C3_Witness ==
    /\ last.op = "Start" /\ last.msg = "fork"
    /\ Task[last.name].Error = 1
    /\ State[last.name] = "Stopped"

\* C4: whenever Start on a Stopped container returns an error, the leaves
\* it created are removed and LeafCgroups is empty on return, whichever
\* step failed.
C4_FailedStartRemovesLeaves ==
    [][(last'.op = "Start" /\ last'.err # "Success" /\ State[last'.name] = "Stopped")
       => /\ LeafCgroups'[last'.name] = {}
          /\ leafDir'[last'.name] \subseteq leafDir[last'.name]]_vars

\* C5: between the calls, a container made by Create whose State is Stopped
\* has an empty LeafCgroups and no leaf directory in any subsystem.
C5_StoppedHasNoLeaves ==
    \A c \in Names \ {ROOT_CONTAINER} :
        (Idle /\ Live(c) /\ State[c] = "Stopped")
        => (LeafCgroups[c] = {} /\ leafDir[c] = {})

\* C6 as stated: a Running non-ROOT container has its freezer leaf (recorded
\* in LeafCgroups) and the leaf lists the pid of its Task.
C6_RunningPidInFreezerLeaf ==
    \A c \in Names \ {ROOT_CONTAINER} :
        (Live(c) /\ State[c] = "Running")
        => /\ FreezerSubsystem \in LeafCgroups[c]
           /\ FreezerSubsystem \in leafDir[c]
           /\ Task[c].Pid \in cgProcs[c]

\* C6: a Running non-ROOT container has a Task and its freezer leaf
\* (recorded in LeafCgroups, existing in the kernel); the leaf lists the
\* Task's pid as long as that process has not exited.
C6_RunningHasFreezerLeaf ==
    \A c \in Names \ {ROOT_CONTAINER} :
        (Live(c) /\ State[c] = "Running")
        => /\ FreezerSubsystem \in LeafCgroups[c]
           /\ FreezerSubsystem \in leafDir[c]
           /\ Task[c].present /\ Task[c].Pid \in Pids
           /\ proc[Task[c].Pid] = "live" => Task[c].Pid \in cgProcs[c]

\* a Running container whose process has exited and waits for the reaper:
\* the kernel has taken the pid out of the leaf
C6_Witness ==
    \E c \in Names \ {ROOT_CONTAINER} :
        /\ Live(c) /\ State[c] = "Running" /\ Idle
        /\ Task[c].Pid \in Pids /\ proc[Task[c].Pid] = "zombie"
        /\ Task[c].Pid \notin cgProcs[c]
        /\ FreezerSubsystem \in LeafCgroups[c]

\* C7: whenever a container's State is Paused, its freezer leaf exists and
\* is FROZEN.
C7_PausedIsFrozen ==
    \A c \in Names :
        (Live(c) /\ State[c] = "Paused")
        => (FreezerSubsystem \in leafDir[c] /\ freezerState[c] = "FROZEN")

\* Pause has just returned success
C7_Witness ==
    /\ last.op = "Pause" /\ last.err = "Success"
    /\ State[last.name] = "Paused" /\ freezerState[last.name] = "FROZEN"

C9_RootAlwaysRunning ==
    Live(ROOT_CONTAINER)
    => (State[ROOT_CONTAINER] = "Running" /\ ~Task[ROOT_CONTAINER].present)

\* C10: on ROOT, each of Stop, Pause, Resume, SetProperty and GetProperty
\* fails with InvalidValue and leaves ROOT's state unchanged.
C10_RootRejectsWithInvalidValue ==
    /\ [][(last'.op \in {"Stop", "Pause", "Resume", "SetProperty"}
           /\ last'.name = ROOT_CONTAINER)
          => (last'.err = "InvalidValue"
              /\ State'[ROOT_CONTAINER] = State[ROOT_CONTAINER])]_vars
    /\ [](Live(ROOT_CONTAINER) =>
            \A property \in Properties :
                GetProperty(World, ROOT_CONTAINER, property).err = "InvalidValue")

\* C11: when Start on a Stopped non-ROOT container returns success, the
\* container is Running, its Task has a pid and root_pid holds that pid; a
\* failing Start does not write root_pid; and no container is Running with
\* a root_pid other than its Task's pid (root_pid is saved first).
C11_StartPersistsRootPid ==
    /\ [][(/\ last'.op = "Start"
           /\ last'.name \in Names \ {ROOT_CONTAINER}
           /\ State[last'.name] = "Stopped")
          => IF last'.err = "Success"
             THEN /\ State'[last'.name] = "Running"
                  /\ Task'[last'.name].Pid \in Pids
                  /\ proc'[Task'[last'.name].Pid] = "live"
                  /\ ContainerSpec'[last'.name].root_pid = Task'[last'.name].Pid
             ELSE ContainerSpec'[last'.name].root_pid
                    = ContainerSpec[last'.name].root_pid]_vars
    /\ [](\A c \in Names \ {ROOT_CONTAINER} :
            (Live(c) /\ State[c] = "Running")
            => ContainerSpec[c].root_pid = Task[c].Pid)

\* Start has just forked a process for a container and returned success
C11_Witness ==
    /\ last.op = "Start" /\ last.err = "Success"
    /\ last.name # ROOT_CONTAINER
    /\ State[last.name] = "Running"
    /\ Task[last.name].Pid \in Pids
    /\ nextPid = Task[last.name].Pid + 1
    /\ ContainerSpec[last.name].root_pid = Task[last.name].Pid

\* C12: a container becomes Dead only in a claimed DeliverExitStatus that
\* found it Running with the delivered pid as its Task's pid; a delivery to
\* a container that is not Running, or of another pid, is not claimed and
\* changes nothing; a delivery of the Task's pid to a Running container is
\* claimed and makes it Dead.
C12_DeadOnlyByDelivery ==
    /\ [][\A c \in Names :
            (State'[c] = "Dead" /\ State[c] # "Dead")
            => /\ last'.op = "DeliverExitStatus" /\ last'.err = "Success"
               /\ State[c] = "Running"
               /\ Task[c].Pid \in Pids
               /\ proc[Task[c].Pid] = "zombie" /\ proc'[Task[c].Pid] = "none"]_vars
    /\ [](\A c \in Names, pid \in Pids, status \in ExitStatuses :
            Live(c) =>
              LET d == DeliverExitStatus(World, c, pid, status)
              IN  IF State[c] = "Running" /\ Task[c].present /\ Task[c].Pid = pid
                  THEN d.claimed /\ d.w.State[c] = "Dead"
                       /\ d.w.Task[c].Status = status
                  ELSE ~d.claimed /\ d.w = World)

\* the reaper has just delivered the exit status of a container's process:
\* the container is Dead and holds the status
C12_Witness ==
    /\ last.op = "DeliverExitStatus" /\ last.err = "Success"
    /\ \E c \in Names \ {ROOT_CONTAINER} :
          /\ Live(c) /\ State[c] = "Dead"
          /\ Task[c].Pid \in Pids /\ proc[Task[c].Pid] = "none"
          /\ Task[c].Status = 3

\* C13: MaybeReturnedOk is one-shot. A Start that finds the container
\* Running with the flag set returns success and changes nothing but the
\* flag; every Start leaves the flag clear; a Start on a container that is
\* Running with a running task and a clear flag is rejected and changes
\* nothing; the flag is set only by a restore that leaves the container
\* Running with a running task.
C13_MaybeReturnedOkOneShot ==
    [][/\ (last'.op = "Start" /\ State[last'.name] = "Running"
                              /\ MaybeReturnedOk[last'.name])
          => /\ last'.err = "Success"
             /\ World' = [World EXCEPT !.MaybeReturnedOk[last'.name] = FALSE]
       /\ last'.op = "Start" => ~MaybeReturnedOk'[last'.name]
       /\ (last'.op = "Start" /\ last'.name # ROOT_CONTAINER
                              /\ State[last'.name] = "Running"
                              /\ ~MaybeReturnedOk[last'.name]
                              /\ TaskIsRunning(World, last'.name))
          => /\ last'.err # "Success"
             /\ World' = World
       /\ \A c \in Names :
            (MaybeReturnedOk'[c] /\ ~MaybeReturnedOk[c])
            => /\ last' = [op |-> "Restore", name |-> c, err |-> "Success", msg |-> ""]
               /\ State'[c] = "Running"
               /\ TaskIsRunning(World', c)]_vars

\* a restored container whose process has exited in the meantime: the
\* first Start has returned success, the flag is clear, and nothing was
\* started (the container is still Running on the exited process)
C13_Witness ==
    /\ last.op = "Start" /\ last.err = "Success"
    /\ last.name # ROOT_CONTAINER
    /\ State[last.name] = "Running"
    /\ ~MaybeReturnedOk[last.name]
    /\ Task[last.name].Pid \in Pids
    /\ proc[Task[last.name].Pid] = "zombie"

\* C14: the restore pass registers every container that has a persisted
\* record, whatever the kernel state: restoring any record that is still
\* to be restored, with no I/O fault, leaves its name in the registry.
C14_EveryRecordIsRegistered ==
    \A c \in restoring, termWorks \in BOOLEAN :
        HolderRestore(World, c, "none", "none", termWorks).w.Containers[c] = "live"

\* C15: a container that the restore pass has just registered is Stopped,
\* Running or Dead, never Paused; if it is Running (and not ROOT), its Task
\* holds the pid saved in root_pid and that process is in the process
\* table, and either the Task was bound to the process of before the crash
\* or restore has started a new process.
C15_RestoredState ==
    (last.op = "Restore" /\ last.err = "Success")
    => /\ Live(last.name)
       /\ State[last.name] \in {"Stopped", "Running", "Dead"}
       /\ (State[last.name] = "Running" /\ ~IsRoot(last.name))
          => /\ Task[last.name].present
             /\ Task[last.name].Pid \in Pids
             /\ Task[last.name].Pid = ContainerSpec[last.name].root_pid
             /\ proc[Task[last.name].Pid] \in {"live", "zombie"}
             /\ \/ MaybeReturnedOk[last.name]
                \/ /\ proc[Task[last.name].Pid] = "live"
                   /\ nextPid = Task[last.name].Pid + 1

\* a container that was Running before the crash has been restored on its
\* live process
C15_Witness ==
    /\ last.op = "Restore" /\ last.err = "Success"
    /\ ~IsRoot(last.name)
    /\ State[last.name] = "Running" /\ MaybeReturnedOk[last.name]
    /\ Task[last.name].Pid \in Pids
    /\ proc[Task[last.name].Pid] = "live"
    /\ Task[last.name].Pid = ContainerSpec[last.name].root_pid

C17_DestroyRemovesEverything ==
    \A c \in Names \ {ROOT_CONTAINER}, termWorks \in BOOLEAN :
        (Idle /\ Live(c))
        => LET w == HolderDestroy(World, c, FALSE, "none", termWorks)
           IN  /\ w.Containers[c] = "absent"
               /\ \A p \in cgProcs[c] : w.proc[p] # "live"
               /\ w.cgProcs[c] = {}
               /\ w.leafDir[c] = {}

\* C18: when the last reference to a Paused container is dropped (Destroy
\* erases it from the registry) and no kill step fails, its freezer leaf ends
\* thawed, every process that was in it is gone, and its leaves are removed -
\* whether the Resume step of the destructor succeeds or reports an error.
C18_PausedDestroyLeavesNothingFrozen ==
    \A c \in Names \ {ROOT_CONTAINER}, unfreezeFails \in BOOLEAN, termWorks \in BOOLEAN :
        (Idle /\ Live(c) /\ State[c] = "Paused")
        => LET w == HolderDestroy(World, c, unfreezeFails, "none", termWorks)
           IN  /\ w.freezerState[c] = "THAWED"
               /\ \A p \in cgProcs[c] : w.proc[p] # "live"
               /\ w.cgProcs[c] = {}
               /\ w.leafDir[c] = {}

\* C19: while ROOT is registered, no Create and no Destroy call - Destroy of
\* ROOT included - removes it or changes its state: after the call ROOT is
\* still registered with the same State, Task, Spec and leaves, and List()
\* returns a list that contains ROOT.
C19_RootSurvivesCreateDestroy ==
    [][(last'.op \in {"Create", "Destroy"} /\ Live(ROOT_CONTAINER))
       => /\ Containers'[ROOT_CONTAINER] = "live"
          /\ State'[ROOT_CONTAINER] = State[ROOT_CONTAINER]
          /\ Task'[ROOT_CONTAINER] = Task[ROOT_CONTAINER]
          /\ ContainerSpec'[ROOT_CONTAINER] = ContainerSpec[ROOT_CONTAINER]
          /\ LeafCgroups'[ROOT_CONTAINER] = LeafCgroups[ROOT_CONTAINER]
          /\ leafDir'[ROOT_CONTAINER] = leafDir[ROOT_CONTAINER]
          /\ \A r \in HolderList(World') : r.ok /\ ROOT_CONTAINER \in r.names]_vars

\* C20: Create with a malformed name or with the name of a registered
\* container fails with InvalidValue and changes nothing (registry, State,
\* Spec, Task and everything else); Create with a well-formed name that is
\* not registered succeeds whenever the record can be written, and a Create
\* that succeeds registers the name with a container that is Stopped, has
\* no Task and a fresh Spec, and leaves every other container alone.
C20_CreateContract ==
    /\ [][last'.op = "Create"
          => IF ~ValidName(last'.name) \/ Live(last'.name)
             THEN last'.err = "InvalidValue" /\ World' = World
             ELSE /\ last'.err \in {"Success", "Unknown"}
                  /\ last'.err = "Success"
                     => /\ Containers'[last'.name] = "live"
                        /\ State'[last'.name] = "Stopped"
                        /\ Task'[last'.name] = NoTask
                        /\ ContainerSpec'[last'.name] = NewSpec
                        /\ \A c \in Names \ {last'.name} :
                              /\ Containers'[c] = Containers[c]
                              /\ State'[c] = State[c]
                              /\ Task'[c] = Task[c]
                              /\ ContainerSpec'[c] = ContainerSpec[c]]_vars
    /\ [](\A name \in Names :
            (Idle /\ ~Live(name)) => HolderCreate(World, name, FALSE).err = "Success")

\* a Create of the name of a Running container has just been refused
C20_Witness ==
    /\ last.op = "Create" /\ last.name = "a" /\ last.err = "InvalidValue"
    /\ State["a"] = "Running" /\ Task["a"].present

\* ------------------------------------------------- ValidName on its own
\* the characters names are built from: letters, a digit, the underscore
\* and three characters outside [A-Za-z0-9_]
Alphabet == {"a", "Z", "7", "_", "-", " ", "hi"}

MaxShortLen == 2

Rep(ch, n) == [i \in 1..n |-> ch]

\* the names given to ValidName: every name of up to MaxShortLen characters,
\* the reserved name, and names around the length limit
NameInputs ==
    UNION {[1..n -> Alphabet] : n \in 0..MaxShortLen}
    \cup {NameChars(ROOT_CONTAINER)}
    \cup {Rep("a", n) : n \in {MaxNameLen - 1, MaxNameLen, MaxNameLen + 1}}
    \cup {Rep("a", MaxNameLen - 1) \o <<ch>> : ch \in Alphabet}
    \cup {Rep("a", MaxNameLen) \o <<ch>> : ch \in Alphabet}

InitValidName ==
    /\ InitTaskVars
    /\ Containers = [c \in Names |-> "absent"]
    /\ State = [c \in Names |-> "Stopped"]
    /\ MaybeReturnedOk = [c \in Names |-> FALSE]
    /\ LeafCgroups = [c \in Names |-> {}]
    /\ Task = [c \in Names |-> NoTask]
    /\ ContainerSpec = [c \in Names |-> NoSpec]
    /\ leafDir = [c \in Names |-> {}]
    /\ cgProcs = [c \in Names |-> {}]
    /\ freezerState = [c \in Names |-> "THAWED"]
    /\ memKnob = [c \in Names |-> NoKnobs]
    /\ proc = [p \in Pids |-> "none"]
    /\ hasLowLimit = TRUE
    /\ nextPid = 1
    /\ restoring = {}
    /\ \E s \in NameInputs : last = [NoCall EXCEPT !.name = s]

\* Create's first step on the name it was given
ValidNameAct ==
    /\ last.op = "none"
    /\ last' = [last EXCEPT !.op = "ValidName",
                            !.err = IF ValidNameOf(last.name) THEN "Success"
                                    ELSE "InvalidValue"]
    /\ UNCHANGED <<Containers, State, MaybeReturnedOk, LeafCgroups, Task, ContainerSpec,
                   leafDir, cgProcs, freezerState, memKnob, proc, hasLowLimit, nextPid,
                   restoring>>
    /\ UNCHANGED taskVars

NextValidName == ValidNameAct

SpecValidName == InitValidName /\ [][NextValidName]_vars

\* C21: a name is accepted exactly when it is the reserved name ROOT, or it
\* has between 1 and 128 characters and each of them is a letter, a digit
\* or the underscore.
C21_ValidNameExactly ==
    last.op = "ValidName"
    => (last.err = "Success"
        <=> \/ last.name = <<"R", "O", "O", "T">>
            \/ /\ Len(last.name) \in 1..128
               /\ \A i \in 1..Len(last.name) :
                     last.name[i] \in {"a", "Z", "7", "_"})

\* a name of 128 characters was accepted
C21_Witness ==
    last.op = "ValidName" /\ Len(last.name) = 128 /\ last.err = "Success"

\* C22: for every name n that is not a key of the registry, Create(n)
\* followed by Destroy(n) leaves the registry as it was - List() returns
\* the same and every other container has the same State, Task, Spec and
\* leaves - whether Create succeeded, was refused, or failed to write the
\* record.
C22_CreateDestroyIdentity ==
    \A n \in Names \cup MalformedNames, persistFails \in BOOLEAN :
        (Idle /\ (n \in Names => Containers[n] = "absent"))
        => LET w1 == HolderCreate(World, n, persistFails).w
               w2 == HolderDestroy(w1, n, FALSE, "none", FALSE)
           IN  /\ HolderList(w2) = HolderList(World)
               /\ w2.Containers = Containers
               /\ \A c \in Names \ {n} :
                     /\ w2.State[c] = State[c]
                     /\ w2.Task[c] = Task[c]
                     /\ w2.ContainerSpec[c] = ContainerSpec[c]
                     /\ w2.LeafCgroups[c] = LeafCgroups[c]

\* C22, amended: the same for every name other than ROOT, which Destroy
\* never removes.
C22_CreateDestroyIdentityNonRoot ==
    \A n \in (Names \cup MalformedNames) \ {ROOT_CONTAINER}, persistFails \in BOOLEAN :
        (Idle /\ (n \in Names => Containers[n] = "absent"))
        => LET w1 == HolderCreate(World, n, persistFails).w
               w2 == HolderDestroy(w1, n, FALSE, "none", FALSE)
           IN  /\ HolderList(w2) = HolderList(World)
               /\ w2.Containers = Containers
               /\ \A c \in Names \ {n} :
                     /\ w2.State[c] = State[c]
                     /\ w2.Task[c] = Task[c]
                     /\ w2.ContainerSpec[c] = ContainerSpec[c]
                     /\ w2.LeafCgroups[c] = LeafCgroups[c]

\* ROOT is registered and Running, "a" is not a key; Create(a) registers
\* it (or leaves an empty entry when the record cannot be written) and
\* Destroy(a) erases what Create left
C22_Witness ==
    /\ Idle /\ Live(ROOT_CONTAINER) /\ State[ROOT_CONTAINER] = "Running"
    /\ Containers["a"] = "absent"
    /\ HolderCreate(World, "a", FALSE).w.Containers["a"] = "live"
    /\ HolderCreate(World, "a", TRUE).w.Containers["a"] = "null"
    /\ HolderDestroy(HolderCreate(World, "a", TRUE).w, "a", FALSE, "none", FALSE).Containers["a"]
         = "absent"

\* C23: on a Running container whose task runs, Pause followed by Resume
\* (the freezer obeying both times) succeeds twice, passes through Paused
\* with the leaf FROZEN, and ends Running with the same Task and pid, the
\* same LeafCgroups and Spec, the same processes, and the freezer leaf
\* THAWED.
C23_PauseResumeIdentity ==
    \A c \in Names \ {ROOT_CONTAINER} :
        (Idle /\ Live(c) /\ State[c] = "Running" /\ TaskIsRunning(World, c))
        => LET p == Pause(World, c, FALSE)
               r == Resume(p.w, c, FALSE)
           IN  /\ p.err = "Success" /\ r.err = "Success"
               /\ p.w.State[c] = "Paused" /\ p.w.freezerState[c] = "FROZEN"
               /\ r.w.State[c] = "Running"
               /\ r.w.freezerState[c] = "THAWED"
               /\ r.w.Task = Task
               /\ r.w.LeafCgroups = LeafCgroups
               /\ r.w.ContainerSpec = ContainerSpec
               /\ r.w.cgProcs = cgProcs /\ r.w.proc = proc
               /\ r.w.leafDir = leafDir /\ r.w.memKnob = memKnob

\* a Resume has just undone a Pause: the container is Running, its process
\* is in the thawed leaf
C23_Witness ==
    /\ last.op = "Resume" /\ last.name = "a" /\ last.err = "Success"
    /\ State["a"] = "Running" /\ freezerState["a"] = "THAWED"
    /\ Task["a"].Pid \in cgProcs["a"]

\* C24: on a Stopped container, when Start succeeds, Stop after it succeeds
\* and a second Start succeeds too (no I/O fault, a pid to fork left), and
\* the state after Start; Stop; Start is the state after the single Start
\* - Running, the same leaves with the same knob values, thawed, a Task
\* built from the same Spec - except for the pid, which is a new one.
C24_StartStopStart ==
    \A c \in Names \ {ROOT_CONTAINER}, termWorks \in BOOLEAN :
        LET s1 == Start(World, c, "none")
            s2 == Stop(s1.w, c, "none", termWorks)
            s3 == Start(s2.w, c, "none")
            pid1 == s1.w.Task[c].Pid
            pid3 == s3.w.Task[c].Pid
        IN  (/\ Idle /\ Live(c) /\ State[c] = "Stopped"
             /\ nextPid < MaxPid
             /\ s1.err = "Success")
            => /\ s2.err = "Success" /\ s3.err = "Success"
               /\ s3.w.State[c] = "Running" /\ s1.w.State[c] = "Running"
               /\ s3.w.LeafCgroups[c] = s1.w.LeafCgroups[c]
               /\ s3.w.leafDir[c] = s1.w.leafDir[c]
               /\ s3.w.memKnob[c] = s1.w.memKnob[c]
               /\ s3.w.freezerState[c] = s1.w.freezerState[c]
               /\ s3.w.MaybeReturnedOk[c] = s1.w.MaybeReturnedOk[c]
               /\ [s3.w.Task[c] EXCEPT !.Pid = 0] = [s1.w.Task[c] EXCEPT !.Pid = 0]
               /\ [s3.w.ContainerSpec[c] EXCEPT !.root_pid = 0]
                    = [s1.w.ContainerSpec[c] EXCEPT !.root_pid = 0]
               /\ pid3 # pid1
               /\ s3.w.ContainerSpec[c].root_pid = pid3
               /\ s3.w.cgProcs[c] = {pid3} /\ s3.w.proc[pid3] = "live"
               /\ s3.w.proc[pid1] # "live"

\* a container that was started and stopped before has just been started
\* again: it is Running with the second pid
C24_Witness ==
    /\ last.op = "Start" /\ last.name = "a" /\ last.err = "Success"
    /\ State["a"] = "Running" /\ Task["a"].Pid = 2
    /\ cgProcs["a"] = {2} /\ proc[1] # "live"
    /\ leafDir["a"] = Subsystems

\* C25: GetData returns InvalidValue for an unknown key; else InvalidData
\* for a key that is not root-valid asked of ROOT; else InvalidState when
\* State is outside the key's allowed set (exit_status: Dead; start_errno:
\* Stopped; root_pid: Running, Paused; stdout, stderr, cpu_usage,
\* memory_usage: Running, Paused, Dead; state: all); else it succeeds.
C25_GetDataErrors ==
    \A c \in Names, key \in DataKeys \cup {"bogus"} :
        Live(c)
        => LET known == {"state", "exit_status", "start_errno", "root_pid",
                         "stdout", "stderr", "cpu_usage", "memory_usage"}
               rootValid == {"state", "cpu_usage", "memory_usage"}
               allowed ==
                   IF key = "state" THEN {"Stopped", "Running", "Paused", "Dead"}
                   ELSE IF key = "exit_status" THEN {"Dead"}
                   ELSE IF key = "start_errno" THEN {"Stopped"}
                   ELSE IF key = "root_pid" THEN {"Running", "Paused"}
                   ELSE {"Running", "Paused", "Dead"}
           IN  GetData(World, c, key).err =
                   IF key \notin known THEN "InvalidValue"
                   ELSE IF c = "ROOT" /\ key \notin rootValid THEN "InvalidData"
                   ELSE IF State[c] \notin allowed THEN "InvalidState"
                   ELSE "Success"

\* "a" is Dead and ROOT is registered but not Running: exit_status is
\* readable and start_errno is not, and ROOT refuses root_pid with
\* InvalidData although its state is outside root_pid's set as well
C25_Witness ==
    /\ Live("a") /\ State["a"] = "Dead"
    /\ Live(ROOT_CONTAINER) /\ State[ROOT_CONTAINER] = "Stopped"
    /\ GetData(World, "a", "exit_status").err = "Success"
    /\ GetData(World, "a", "start_errno").err = "InvalidState"
    /\ GetData(World, ROOT_CONTAINER, "root_pid").err = "InvalidData"
    /\ GetData(World, "a", "bogus").err = "InvalidValue"

\* C26: GetData("state") succeeds for every registered container, ROOT
\* included, in every state, and returns "stopped", "running", "paused" or
\* "dead" according to the container's State.
C26_StateAlwaysReadable ==
    \A c \in Names :
        Live(c)
        => /\ GetData(World, c, "state").err = "Success"
           /\ GetData(World, c, "state").value =
                  (IF State[c] = "Stopped" THEN "stopped"
                   ELSE IF State[c] = "Running" THEN "running"
                   ELSE IF State[c] = "Paused" THEN "paused"
                   ELSE "dead")
           /\ State[c] \in {"Stopped", "Running", "Paused", "Dead"}

\* ROOT reads "running" while "a" reads "paused"
C26_Witness ==
    /\ Live(ROOT_CONTAINER) /\ Live("a")
    /\ GetData(World, ROOT_CONTAINER, "state") = [err |-> "Success", value |-> "running"]
    /\ GetData(World, "a", "state") = [err |-> "Success", value |-> "paused"]

\* C27: when State is Running but the Task is missing or not running,
\* GetData answers as for a Stopped container: "state" reads "stopped",
\* start_errno (allowed when Stopped) is readable, and root_pid, stdout,
\* stderr, cpu_usage and memory_usage (not allowed when Stopped) fail with
\* InvalidState.
C27_GetDataReconcilesStaleRunning ==
    \A c \in Names \ {ROOT_CONTAINER} :
        (/\ Live(c) /\ State[c] = "Running"
         /\ (~Task[c].present \/ ~TaskIsRunning(World, c)))
        => /\ GetData(World, c, "state") = [err |-> "Success", value |-> "stopped"]
           /\ GetData(World, c, "start_errno").err = "Success"
           /\ \A key \in {"root_pid", "stdout", "stderr", "cpu_usage", "memory_usage"} :
                 GetData(World, c, key).err = "InvalidState"

\* C28: on a non-ROOT container, SetProperty of a static property fails
\* with InvalidValue and changes nothing when the container is Running,
\* Paused or Dead; it succeeds and stores the value when the container is
\* Stopped; SetProperty of a dynamic property succeeds and stores the value
\* in every state. Nothing but that property of that container changes.
C28_StaticOnlyWhenStopped ==
    \A c \in Names \ {ROOT_CONTAINER}, property \in Properties, dynamic \in BOOLEAN :
        \A value \in PropertyValues(property) :
            Live(c)
            => LET r == SetPropertyAs(World, c, property, value, dynamic)
               IN  IF ~dynamic /\ State[c] \in {"Running", "Paused", "Dead"}
                   THEN r.err = "InvalidValue" /\ r.w = World
                   ELSE /\ r.err = "Success"
                        /\ r.w.ContainerSpec[c][property] = value
                        /\ r.w = [World EXCEPT !.ContainerSpec[c][property] = value]

\* a SetProperty of the static command has just been refused on a Paused
\* container whose command stays "sleep"; a dynamic property would be set
C28_Witness ==
    /\ last.op = "SetProperty" /\ last.name = "a" /\ last.err = "InvalidValue"
    /\ State["a"] = "Paused" /\ ContainerSpec["a"].command = "sleep"
    /\ SetPropertyAs(World, "a", "command", "", TRUE).w.ContainerSpec["a"].command = ""

\* C29: Stop on a Running or Dead non-ROOT container returns success, and
\* on return the container is Stopped, LeafCgroups is empty and no process
\* is left in its freezer leaf - whether SIGTERM empties the leaf in time
\* or not, and whichever step of the kill sequence fails.
C29_StopAlwaysCleans ==
    [][(/\ last'.op = "Stop"
        /\ last'.name \in Names \ {ROOT_CONTAINER}
        /\ CheckStateWorld(World, last'.name).State[last'.name] \in {"Running", "Dead"})
       => /\ last'.err = "Success"
          /\ State'[last'.name] = "Stopped"
          /\ LeafCgroups'[last'.name] = {}
          /\ cgProcs'[last'.name] = {}]_vars

\* C30: whenever Start on a non-ROOT container gets as far as creating the
\* leaves (the container is Stopped once its state is reconciled), none of
\* its leaves exists yet, so Create is never invoked on an existing leaf;
\* and a fault-free Start of a Stopped container that has a command and a
\* pid to fork succeeds.
C30_SingleCreatePerEpoch ==
    /\ [][(/\ last'.op = "Start"
           /\ last'.name \in Names \ {ROOT_CONTAINER}
           /\ ~MaybeReturnedOk[last'.name]
           /\ CheckStateWorld(World, last'.name).State[last'.name] = "Stopped")
          => leafDir[last'.name] = {}]_vars
    /\ [](\A c \in Names \ {ROOT_CONTAINER} :
            (/\ Idle /\ Live(c)
             /\ CheckStateWorld(World, c).State[c] = "Stopped"
             /\ ContainerSpec[c].command # ""
             /\ nextPid <= MaxPid)
            => Start(World, c, "none").err = "Success")

\* C31: in Start the three leaves exist and their knobs are written before
\* the task is forked - a Start that forked a process leaves all three
\* leaves with the Spec's values in the knobs and the process in the leaf,
\* and a Start whose PrepareCgroups fails forks nothing; in Stop the leaves
\* are given up only once the processes of the container are gone.
C31_LeafLifetimeBracketsTask ==
    /\ [][(/\ last'.op = "Start"
           /\ last'.name \in Names \ {ROOT_CONTAINER}
           /\ nextPid' # nextPid)
          => /\ leafDir'[last'.name] = Subsystems
             /\ LeafCgroups'[last'.name] = Subsystems
             /\ memKnob'[last'.name].limit = ContainerSpec[last'.name].memory_limit
             /\ memKnob'[last'.name].low = ContainerSpec[last'.name].memory_guarantee
             /\ nextPid \in cgProcs'[last'.name]]_vars
    /\ [](\A c \in Names \ {ROOT_CONTAINER}, fault \in StartFaults :
            (Idle /\ Live(c)
             /\ PrepareCgroups(CheckStateWorld(World, c), c, fault, FALSE).err # "Success")
            => Start(World, c, fault).w.proc = proc)
    /\ [][(/\ last'.op = "Stop"
           /\ last'.name \in Names \ {ROOT_CONTAINER}
           /\ LeafCgroups[last'.name] # {}
           /\ LeafCgroups'[last'.name] = {})
          => /\ cgProcs'[last'.name] = {}
             /\ \A p \in cgProcs[last'.name] : proc'[p] # "live"]_vars

\* ------------------------------------------- the memory knobs on their own
\* the kernel may or may not have memory.low_limit_in_bytes
InitKnobs ==
    /\ InitTaskVars
    /\ Containers = [c \in Names |-> "absent"]
    /\ State = [c \in Names |-> "Stopped"]
    /\ MaybeReturnedOk = [c \in Names |-> FALSE]
    /\ LeafCgroups = [c \in Names |-> {}]
    /\ Task = [c \in Names |-> NoTask]
    /\ ContainerSpec = [c \in Names |-> NoSpec]
    /\ leafDir = [c \in Names |-> {}]
    /\ cgProcs = [c \in Names |-> {}]
    /\ freezerState = [c \in Names |-> "THAWED"]
    /\ memKnob = [c \in Names |-> NoKnobs]
    /\ proc = [p \in Pids |-> "none"]
    /\ hasLowLimit \in BOOLEAN
    /\ nextPid = 1
    /\ restoring = {}
    /\ last = NoCall

\* SetProperty of any property of the model
SetAnyPropertyAct ==
    Idle /\ \E c \in Names, property \in Properties :
        \E value \in PropertyValues(property) :
            /\ Live(c)
            /\ LET r == SetProperty(World, c, property, value)
               IN  SetWorld(r.w) /\ UNCHANGED restoring /\ last' = Call("SetProperty", c, r)

NextKnobs ==
    \/ CreateAct
    \/ SetAnyPropertyAct
    \/ StartAct
    \/ StopAct
    \/ Return

SpecKnobs == InitKnobs /\ [][NextKnobs]_vars

\* C32: a Start of a non-ROOT container that forks a task leaves
\* memory.limit_in_bytes holding memory_limit, and memory.low_limit_in_bytes
\* holding memory_guarantee exactly when the root memory cgroup has that
\* knob (unwritten otherwise); the guarantee is written first: when its
\* write fails the limit is unwritten, when the limit's write fails the
\* guarantee is already there; and a failure of either write makes Start
\* fail and fork nothing.
C32_MemoryKnobs ==
    [][(last'.op = "Start" /\ last'.name \in Names \ {ROOT_CONTAINER})
       => /\ (last'.err = "Success" /\ nextPid' # nextPid)
             => /\ memKnob'[last'.name].limit = ContainerSpec[last'.name].memory_limit
                /\ memKnob'[last'.name].low =
                      (IF hasLowLimit THEN ContainerSpec[last'.name].memory_guarantee
                       ELSE "")
          /\ last'.msg = "memory_guarantee"
             => /\ hasLowLimit
                /\ last'.err # "Success"
                /\ memKnob'[last'.name] = [limit |-> "", low |-> ""]
                /\ proc' = proc /\ nextPid' = nextPid /\ State'[last'.name] = "Stopped"
          /\ last'.msg = "memory_limit"
             => /\ last'.err # "Success"
                /\ memKnob'[last'.name].limit = ""
                /\ memKnob'[last'.name].low =
                      (IF hasLowLimit THEN ContainerSpec[last'.name].memory_guarantee
                       ELSE "")
                /\ proc' = proc /\ nextPid' = nextPid /\ State'[last'.name] = "Stopped"]_vars

\* a Start has just succeeded with memory_limit 4194304 on a kernel
\* without memory.low_limit_in_bytes
C32_Witness ==
    /\ last.op = "Start" /\ last.name = "a" /\ last.err = "Success"
    /\ ~hasLowLimit
    /\ State["a"] = "Running"
    /\ memKnob["a"] = [limit |-> "4194304", low |-> ""]

\* C33: Holder.DeliverExitStatus(pid, status) returns; it returns true
\* exactly when some container claims the pid; it changes the first
\* container in the map's order that claims it and no other; and when no
\* container claims the pid it changes nothing.
C33_DeliverChangesAtMostOne ==
    \A p \in Pids, status \in ExitStatuses, ub \in NullDeref :
        (Idle /\ proc[p] = "zombie")
        => LET w0 == [World EXCEPT !.proc[p] = "none"]
               d == HolderDeliverExitStatus(w0, 1, p, status, ub)
               claimers == {i \in 1..Len(NameOrder) :
                              /\ Containers[NameOrder[i]] = "live"
                              /\ DeliverExitStatus(w0, NameOrder[i], p, status).claimed}
               changed == {c \in Names : \/ d.w.State[c] # State[c]
                                         \/ d.w.Task[c] # Task[c]
                                         \/ d.w.LeafCgroups[c] # LeafCgroups[c]
                                         \/ d.w.ContainerSpec[c] # ContainerSpec[c]
                                         \/ d.w.MaybeReturnedOk[c] # MaybeReturnedOk[c]}
           IN  /\ ~d.crashed
               /\ d.claimed <=> claimers # {}
               /\ Cardinality(changed) <= 1
               /\ d.claimed
                  => changed = {NameOrder[CHOOSE i \in claimers :
                                             \A j \in claimers : i <= j]}
               /\ ~d.claimed => d.w = w0

C35_PauseResumeOnlyOnSuccess ==
    \A c \in Names \ {ROOT_CONTAINER}, fails \in BOOLEAN :
        (Idle /\ Live(c))
        => LET csP == CheckState(World, c, "Running")
               fr  == Freeze(csP.w, c, fails)
               p   == Pause(World, c, fails)
               csR == CheckState(World, c, "Paused")
               un  == Unfreeze(csR.w, c, fails)
               r   == Resume(World, c, fails)
           IN  /\ (csP.ok /\ fr.err # "Success")
                  => p.err = fr.err /\ p.msg = fr.msg /\ p.w.State[c] = "Running"
               /\ (csR.ok /\ un.err # "Success")
                  => r.err = un.err /\ r.msg = un.msg /\ r.w.State[c] = "Paused"
               /\ p.err # "Success" => p.w.State[c] = csP.w.State[c]
               /\ r.err # "Success" => r.w.State[c] = csR.w.State[c]
               /\ p.err = "Success" => p.w.State[c] = "Paused"
               /\ r.err = "Success" => r.w.State[c] = "Running"

\* a Resume has just failed in Unfreeze: the container is still Paused and
\* its leaf still frozen
C35_Witness ==
    /\ last.op = "Resume" /\ last.name = "a" /\ last.err = "Unknown"
    /\ State["a"] = "Paused" /\ freezerState["a"] = "FROZEN"

\* C36: no entry of the registry is empty: every name the registry holds
\* maps to a live container, whatever Create, Destroy, Get and Restore calls
\* came before, a Create whose persistence record failed included, so that
\* List and the reaper's delivery never meet an empty entry.
C36_NoEmptyEntries ==
    /\ \A n \in Names : Containers[n] # "null"
    /\ \A l \in HolderList(World) : l.ok /\ "?" \notin l.names
    /\ \A pid \in Pids, status \in ExitStatuses, ub \in NullDeref :
           ~HolderDeliverExitStatus(World, 1, pid, status, ub).crashed

\* ------------------------------------------------- the task table (TTask)
\* util/unix.cpp keeps one process-wide table of the forked, not detached
\* tasks. Each call below is cut at the points where the code releases or
\* takes ForkLock, blocks in waitpid or blocks on TasksCV; what a thread
\* does while it holds the lock is one step.

Signals == {"SIGTERM", "SIGKILL"}

\* std::map::erase(key)
EraseTask(tasks, pid) == IF pid \in Pids THEN [tasks EXCEPT ![pid] = "none"] ELSE tasks

\* std::map::find(key) != end()
Registered(tasks, pid) == pid \in Pids /\ tasks[pid] # "none"

\* kill(pid, 0) fails with ESRCH: no such process, running or zombie
NoSuchProcess(pid) == pid \in Pids /\ proc[pid] = "none"

containerVars == <<Containers, State, MaybeReturnedOk, LeafCgroups, Task, ContainerSpec,
                   leafDir, cgProcs, freezerState, memKnob, hasLowLimit, restoring, last>>

InitTask ==
    /\ Containers = [c \in Names |-> "absent"]
    /\ State = [c \in Names |-> "Stopped"]
    /\ MaybeReturnedOk = [c \in Names |-> FALSE]
    /\ LeafCgroups = [c \in Names |-> {}]
    /\ Task = [c \in Names |-> NoTask]
    /\ ContainerSpec = [c \in Names |-> NoSpec]
    /\ leafDir = [c \in Names |-> {}]
    /\ cgProcs = [c \in Names |-> {}]
    /\ freezerState = [c \in Names |-> "THAWED"]
    /\ memKnob = [c \in Names |-> NoKnobs]
    /\ proc = [p \in Pids |-> "none"]
    /\ hasLowLimit = TRUE
    /\ nextPid = 1
    /\ restoring = {}
    /\ last = NoCall
    /\ InitTaskVars

\* TTask::Fork, the parent's side: the whole call runs under ForkLock. A
\* task object is forked once.
Fork(t, detach, forkFails) ==
    /\ thr[t].pc = "idle" /\ ForkLock = "free"
    /\ thr[t].child = NoPid /\ nextPid <= MaxPid
    /\ IF forkFails
       THEN UNCHANGED <<proc, nextPid, Pid, Tasks, thr>>
       ELSE /\ proc' = [proc EXCEPT ![nextPid] = "live"]
            /\ nextPid' = nextPid + 1
            /\ Pid' = [Pid EXCEPT ![t] = nextPid]
            /\ Tasks' = IF detach THEN Tasks ELSE [Tasks EXCEPT ![nextPid] = t]
            /\ thr' = [thr EXCEPT ![t].child = nextPid, ![t].registered = ~detach]
    /\ UNCHANGED <<ForkLock, Status, exitStatus, sent>>
    /\ UNCHANGED containerVars

\* TTask::Wait up to its waitpid: with a Pid it copies it and drops the
\* lock, without one it goes to the loop with the lock held
WaitLock(t) ==
    /\ thr[t].pc = "idle" /\ ForkLock = "free"
    /\ IF Pid[t] # NoPid
       THEN /\ thr' = [thr EXCEPT ![t].pc = "waitpid", ![t].pid = Pid[t],
                                  ![t].status = NotExited]
            /\ UNCHANGED ForkLock
       ELSE /\ thr' = [thr EXCEPT ![t].pc = "loop", ![t].pid = NoPid,
                                  ![t].status = NotExited]
            /\ ForkLock' = t
    /\ UNCHANGED <<Tasks, Pid, Status, exitStatus, sent, proc, nextPid>>
    /\ UNCHANGED containerVars

\* waitpid(pid, &status, 0) with the lock released: it collects the child
\* when that is a zombie, and fails when the child was collected by another
\* thread, is not a child of this process, or a signal interrupts the call
WaitWaitpid(t) ==
    /\ thr[t].pc = "waitpid"
    /\ \E collected \in (IF proc[thr[t].pid] = "zombie" THEN BOOLEAN ELSE {FALSE}) :
         IF collected
         THEN /\ proc' = [proc EXCEPT ![thr[t].pid] = "none"]
              /\ thr' = [thr EXCEPT ![t].pc = "relock", ![t].pid = NoPid,
                                    ![t].status = exitStatus[thr[t].pid]]
         ELSE /\ thr' = [thr EXCEPT ![t].pc = "relock"]
              /\ UNCHANGED proc
    /\ UNCHANGED <<ForkLock, Tasks, Pid, Status, exitStatus, sent, nextPid>>
    /\ UNCHANGED containerVars

\* TTask::Wait takes the lock again and, if its own waitpid collected the
\* child, unregisters the task and stores the status
WaitRelock(t) ==
    /\ thr[t].pc = "relock" /\ ForkLock = "free"
    /\ ForkLock' = t
    /\ thr' = [thr EXCEPT ![t].pc = "loop"]
    /\ IF thr[t].pid = NoPid
       THEN /\ Tasks' = EraseTask(Tasks, Pid[t])
            /\ Pid' = [Pid EXCEPT ![t] = NoPid]
            /\ Status' = [Status EXCEPT ![t] = thr[t].status]
       ELSE UNCHANGED <<Tasks, Pid, Status>>
    /\ UNCHANGED <<exitStatus, sent, proc, nextPid>>
    /\ UNCHANGED containerVars

\* one turn of `while (Pid)` in TTask::Wait, the lock held: return the
\* status when Pid is 0, "task not found" when the process is gone,
\* "detached task" when the pid is not registered, else wait on TasksCV,
\* which releases the lock and blocks in one step
WaitLoop(t) ==
    /\ thr[t].pc = "loop" /\ ForkLock = t
    /\ IF Pid[t] = NoPid
       THEN /\ thr' = [thr EXCEPT ![t].pc = "return",
                                  ![t].ret = IF Status[t] # 0 THEN "exit status" ELSE "Success"]
            /\ ForkLock' = "free"
            /\ UNCHANGED <<Tasks, Pid, Status>>
       ELSE IF NoSuchProcess(Pid[t])
       THEN /\ Tasks' = EraseTask(Tasks, Pid[t])
            /\ Pid' = [Pid EXCEPT ![t] = NoPid]
            /\ Status' = [Status EXCEPT ![t] = 100]
            /\ thr' = [thr EXCEPT ![t].pc = "return", ![t].ret = "task not found"]
            /\ ForkLock' = "free"
       ELSE IF ~Registered(Tasks, Pid[t])
       THEN /\ thr' = [thr EXCEPT ![t].pc = "return", ![t].ret = "detached task"]
            /\ ForkLock' = "free"
            /\ UNCHANGED <<Tasks, Pid, Status>>
       ELSE /\ thr' = [thr EXCEPT ![t].pc = "cvwait"]
            /\ ForkLock' = "free"
            /\ UNCHANGED <<Tasks, Pid, Status>>
    /\ UNCHANGED <<exitStatus, sent, proc, nextPid>>
    /\ UNCHANGED containerVars

\* TTask::Wait hands its result to the caller
WaitReturn(t) ==
    /\ thr[t].pc = "return"
    /\ thr' = [thr EXCEPT ![t].pc = "idle", ![t].pid = NoPid, ![t].status = NotExited,
                          ![t].ret = "none"]
    /\ UNCHANGED <<ForkLock, Tasks, Pid, Status, exitStatus, sent, proc, nextPid>>
    /\ UNCHANGED containerVars

\* TasksCV.wait returns: the woken thread takes the lock again and tests
\* Pid once more
WaitWake(t) ==
    /\ thr[t].pc = "woken" /\ ForkLock = "free"
    /\ ForkLock' = t
    /\ thr' = [thr EXCEPT ![t].pc = "loop"]
    /\ UNCHANGED <<Tasks, Pid, Status, exitStatus, sent, proc, nextPid>>
    /\ UNCHANGED containerVars

\* std::condition_variable::wait may wake up with nobody notifying
SpuriousWake(t) ==
    /\ thr[t].pc = "cvwait"
    /\ thr' = [thr EXCEPT ![t].pc = "woken"]
    /\ UNCHANGED <<ForkLock, Tasks, Pid, Status, exitStatus, sent, proc, nextPid>>
    /\ UNCHANGED containerVars

\* TTask::Detach
Detach(t) ==
    /\ thr[t].pc = "idle" /\ ForkLock = "free"
    /\ Tasks' = EraseTask(Tasks, Pid[t])
    /\ thr' = [thr EXCEPT ![t].registered = FALSE]
    /\ UNCHANGED <<ForkLock, Pid, Status, exitStatus, sent, proc, nextPid>>
    /\ UNCHANGED containerVars

\* TTask::Kill: the error built when Pid is 0 is not returned, so the call
\* goes on to kill(Pid, signal), and kill(0, signal) signals the caller's
\* own process group. Kill takes no lock. SIGKILL ends a running process
\* at once, SIGTERM leaves it to exit by itself.
Kill(t, signal) ==
    /\ thr[t].pc = "idle"
    /\ sent' = [sent EXCEPT ![t] = <<Pid[t], signal>>]
    /\ thr' = [thr EXCEPT ![t].pc = "killed",
                          ![t].ret = IF NoSuchProcess(Pid[t]) THEN "Unknown" ELSE "Success"]
    /\ IF Pid[t] \in Pids /\ proc[Pid[t]] = "live" /\ signal = "SIGKILL"
       THEN /\ proc' = [proc EXCEPT ![Pid[t]] = "zombie"]
            /\ exitStatus' = [exitStatus EXCEPT ![Pid[t]] = 9]
       ELSE UNCHANGED <<proc, exitStatus>>
    /\ UNCHANGED <<ForkLock, Tasks, Pid, Status, nextPid>>
    /\ UNCHANGED containerVars

\* TTask::Kill hands its result to the caller
KillReturn(t) ==
    /\ thr[t].pc = "killed"
    /\ thr' = [thr EXCEPT ![t].pc = "idle", ![t].ret = "none"]
    /\ sent' = [sent EXCEPT ![t] = <<>>]
    /\ UNCHANGED <<ForkLock, Tasks, Pid, Status, exitStatus, proc, nextPid>>
    /\ UNCHANGED containerVars

\* a running child exits by itself
ChildExit(p) ==
    /\ proc[p] = "live"
    /\ proc' = [proc EXCEPT ![p] = "zombie"]
    /\ \E status \in ExitStatuses : exitStatus' = [exitStatus EXCEPT ![p] = status]
    /\ UNCHANGED <<ForkLock, Tasks, Pid, Status, thr, sent, nextPid>>
    /\ UNCHANGED containerVars

\* the main thread collects an exited child, to hand its status to
\* TTask::Deliver
MainReap ==
    /\ thr[MainThread].pc = "idle"
    /\ \E p \in Pids :
         /\ proc[p] = "zombie"
         /\ proc' = [proc EXCEPT ![p] = "none"]
         /\ thr' = [thr EXCEPT ![MainThread].pc = "deliver", ![MainThread].pid = p,
                               ![MainThread].status = exitStatus[p]]
    /\ UNCHANGED <<ForkLock, Tasks, Pid, Status, exitStatus, sent, nextPid>>
    /\ UNCHANGED containerVars

\* TTask::Deliver under the lock: look the pid up, reset the task's Pid and
\* store the status; the entry of the table stays
DeliverLock ==
    /\ thr[MainThread].pc = "deliver" /\ ForkLock = "free"
    /\ IF ~Registered(Tasks, thr[MainThread].pid)
       THEN /\ thr' = [thr EXCEPT ![MainThread] = ThreadIdle]
            /\ UNCHANGED <<Pid, Status>>
       ELSE /\ Pid' = [Pid EXCEPT ![Tasks[thr[MainThread].pid]] = NoPid]
            /\ Status' = [Status EXCEPT ![Tasks[thr[MainThread].pid]] = thr[MainThread].status]
            /\ thr' = [thr EXCEPT ![MainThread].pc = "notify"]
    /\ UNCHANGED <<ForkLock, Tasks, exitStatus, sent, proc, nextPid>>
    /\ UNCHANGED containerVars

\* Deliver that returns without notifying the waiters
NotifyAll_Nobody(threads) == threads

\* TasksCV.notify_all(): every thread blocked in TasksCV.wait is woken
NotifyAll(threads) ==
    [h \in Threads |-> IF threads[h].pc = "cvwait" THEN [threads[h] EXCEPT !.pc = "woken"]
                       ELSE threads[h]]

\* TTask::Deliver after the lock is released: notify_all, return true
DeliverNotify ==
    /\ thr[MainThread].pc = "notify"
    /\ thr' = [NotifyAll(thr) EXCEPT ![MainThread] = ThreadIdle]
    /\ UNCHANGED <<ForkLock, Tasks, Pid, Status, exitStatus, sent, proc, nextPid>>
    /\ UNCHANGED containerVars

ForkAct == \E t \in TaskIds, detach \in BOOLEAN, forkFails \in BOOLEAN : Fork(t, detach, forkFails)
WaitLockAct == \E t \in TaskIds : WaitLock(t)
WaitWaitpidAct == \E t \in TaskIds : WaitWaitpid(t)
WaitRelockAct == \E t \in TaskIds : WaitRelock(t)
WaitLoopAct == \E t \in TaskIds : WaitLoop(t)
WaitReturnAct == \E t \in TaskIds : WaitReturn(t)
WaitWakeAct == \E t \in TaskIds : WaitWake(t)
SpuriousWakeAct == \E t \in TaskIds : SpuriousWake(t)
DetachAct == \E t \in TaskIds : Detach(t)
KillAct == \E t \in TaskIds, signal \in Signals : Kill(t, signal)
KillReturnAct == \E t \in TaskIds : KillReturn(t)
ChildExitAct == \E p \in Pids : ChildExit(p)

NextTask ==
    \/ ForkAct
    \/ WaitLockAct
    \/ WaitWaitpidAct
    \/ WaitRelockAct
    \/ WaitLoopAct
    \/ WaitReturnAct
    \/ WaitWakeAct
    \/ SpuriousWakeAct
    \/ DetachAct
    \/ KillAct
    \/ KillReturnAct
    \/ ChildExitAct
    \/ MainReap
    \/ DeliverLock
    \/ DeliverNotify

SpecTask == InitTask /\ [][NextTask]_vars

\* the scheduling the liveness of Wait rests on: a thread that holds
\* ForkLock goes on to release it, a thread that asks for ForkLock gets it
\* in the end, and notify_all is reached once Deliver has dropped the lock
FairTask ==
    /\ SF_vars(DeliverLock)
    /\ WF_vars(DeliverNotify)
    /\ \A t \in TaskIds : SF_vars(WaitWake(t)) /\ SF_vars(WaitRelock(t)) /\ WF_vars(WaitLoop(t))

SpecTaskFair == InitTask /\ [][NextTask]_vars /\ FairTask

\* C37: when Wait returns on a task that was forked non-detached and never
\* detached, it returns success exactly when the child's real exit status
\* is 0, and it never returns "task not found" (Status 100), whichever
\* thread collected the child.
C37_WaitReportsRealStatus ==
    \A t \in TaskIds :
        (thr[t].pc = "return" /\ thr[t].child # NoPid /\ thr[t].registered)
        => /\ thr[t].ret # "task not found"
           /\ Status[t] # 100
           /\ thr[t].ret = "Success" <=> exitStatus[thr[t].child] = 0

\* C38: every pid registered in Tasks maps to a task whose Pid is that pid.
C38_TasksKeyIsPid ==
    \A p \in Pids : Tasks[p] # "none" => Pid[Tasks[p]] = p

\* C39: a thread blocked on TasksCV in Wait on a registered task, while the
\* main thread is calling Deliver with that task's pid, eventually reaches
\* the return of Wait.
C39_DeliverWakesWait ==
    \A t \in TaskIds :
        (/\ thr[t].pc = "cvwait" /\ Pid[t] # NoPid /\ Tasks[Pid[t]] = t
         /\ thr[MainThread].pc = "deliver" /\ thr[MainThread].pid = Pid[t])
        ~> (thr[t].pc = "return")

\* a thread is blocked on TasksCV and the main thread is about to deliver
\* its child's exit
C39_Witness ==
    \E t \in TaskIds :
        /\ thr[t].pc = "cvwait" /\ Pid[t] # NoPid /\ Tasks[Pid[t]] = t
        /\ thr[MainThread].pc = "deliver" /\ thr[MainThread].pid = Pid[t]

\* C40: a Kill on a task whose Pid is 0 makes no kill() call and returns an
\* error; a kill() call is made only with the pid of the task's child.
C40_KillOnlyRunningTask ==
    \A t \in TaskIds :
        thr[t].pc = "killed"
        => /\ sent[t] # <<>> => sent[t][1] # NoPid /\ sent[t][1] = thr[t].child
           /\ sent[t] = <<>> => thr[t].ret = "Unknown"
====
